---- MODULE Spec2Model ----
(***************************************************************************)
(* Model of the PDF obfuscation application: the orchestrator              *)
(* PdfObfuscationApplication.obfuscate_document with its domain services   *)
(* (DocumentObfuscationService, ErrorHandler, ConfigurationService), the   *)
(* local storage adapter's path resolution, and the obfuscate_occurrences  *)
(* operation of the three PDF adapters.                                    *)
(*                                                                         *)
(* Strings the code inspects character by character (terms) are sequences  *)
(* of one-character strings; paths are sequences of path components;       *)
(* texts that are only formatted (messages) are sequences of fragments.    *)
(***************************************************************************)
EXTENDS Integers, Sequences, FiniteSets, TLC

\* ------------------------------------------------------------------ bounds
MaxTerms == 2
MaxPages == 2
MaxOccs == 2
MaxWords == 2

\* ------------------------------------------------------- generic helpers
RECURSIVE SumSeq(_)
SumSeq(s) == IF s = <<>> THEN 0 ELSE Head(s) + SumSeq(Tail(s))

RECURSIVE FlattenSeq(_)
FlattenSeq(ss) == IF ss = <<>> THEN <<>> ELSE Head(ss) \o FlattenSeq(Tail(ss))

RECURSIVE SeqsUpTo(_, _)
SeqsUpTo(S, n) ==
    IF n = 0 THEN {<<>>}
    ELSE LET shorter == SeqsUpTo(S, n - 1)
         IN  shorter \cup {Append(s, x) : s \in shorter, x \in S}

\* -------------------------------------------------- python str operations
\* str.lower() on the characters the model uses
LowerChar(c) == CASE c = "A" -> "a" [] c = "B" -> "b" [] c = "Z" -> "z" [] OTHER -> c

Lower(s) == [i \in 1..Len(s) |-> LowerChar(s[i])]

\* str.upper() and str.capitalize() on the characters the model uses
UpperChar(c) == CASE c = "a" -> "A" [] c = "b" -> "B" [] c = "z" -> "Z" [] OTHER -> c

Upper(s) == [i \in 1..Len(s) |-> UpperChar(s[i])]

Capitalize(s) == [i \in 1..Len(s) |-> IF i = 1 THEN UpperChar(s[i]) ELSE LowerChar(s[i])]

\* `needle in hay`
Contains(hay, needle) ==
    \E p \in 1..(Len(hay) - Len(needle) + 1) : SubSeq(hay, p, p + Len(needle) - 1) = needle

\* the positions (from 1) at which needle occurs in hay, in increasing order
RECURSIVE FindAllFrom(_, _, _)
FindAllFrom(hay, needle, p) ==
    IF p + Len(needle) - 1 > Len(hay) THEN <<>>
    ELSE (IF SubSeq(hay, p, p + Len(needle) - 1) = needle THEN <<p>> ELSE <<>>)
         \o FindAllFrom(hay, needle, p + 1)

\* str.find(): the first position counted from 0, -1 if there is none
Find(hay, needle) ==
    LET all == FindAllFrom(hay, needle, 1)
    IN  IF all = <<>> THEN -1 ELSE Head(all) - 1

\* str.split(): the whitespace-separated words
RECURSIVE SplitFrom(_, _)
SplitFrom(s, word) ==
    IF s = <<>> THEN (IF word = <<>> THEN <<>> ELSE <<word>>)
    ELSE IF Head(s) = " "
         THEN (IF word = <<>> THEN <<>> ELSE <<word>>) \o SplitFrom(Tail(s), <<>>)
         ELSE SplitFrom(Tail(s), Append(word, Head(s)))

Split(s) == SplitFrom(s, <<>>)

\* ' '.join(words)
RECURSIVE Join(_)
Join(words) ==
    IF words = <<>> THEN <<>>
    ELSE IF Len(words) = 1 THEN Head(words)
    ELSE Head(words) \o <<" ">> \o Join(Tail(words))

RECURSIVE LStrip(_)
LStrip(s) == IF s # <<>> /\ Head(s) = " " THEN LStrip(Tail(s)) ELSE s

RECURSIVE RStrip(_)
RStrip(s) ==
    IF s # <<>> /\ s[Len(s)] = " " THEN RStrip(SubSeq(s, 1, Len(s) - 1)) ELSE s

\* str.strip()
Strip(s) == RStrip(LStrip(s))

\* ------------------------------------------------------------------ paths
\* A path argument is None or a str; a str is its sequence of components
\* ("./a.pdf" is <<".", "a.pdf">>, "" is <<>>, an absolute path starts "/").
None == [tag |-> "None", parts |-> <<>>]
Str(parts) == [tag |-> "str", parts |-> parts]

\* python truthiness of an Optional[str]
Truthy(p) == p.tag = "str" /\ p.parts # <<>>

\* `not p.strip()` for a path string
StripsEmpty(p) == \A i \in 1..Len(p.parts) : p.parts[i] = " "

\* pathlib.Path(s): "." components are collapsed
RECURSIVE PurePath(_)
PurePath(parts) ==
    IF parts = <<>> THEN <<>>
    ELSE IF Head(parts) = "." THEN PurePath(Tail(parts))
    ELSE <<Head(parts)>> \o PurePath(Tail(parts))

base_path == <<"/", "base">>

IsAbsolute(parts) == parts # <<>> /\ Head(parts) = "/"

\* LocalStorageAdapter._resolve_path
_resolve_path(p) ==
    LET path == PurePath(p.parts)
    IN  IF IsAbsolute(path) THEN path ELSE base_path \o path

\* f"{stem}_obfuscated.pdf" for the file names of the model
StemWithSuffix(name) ==
    CASE name = "a.pdf" -> "a_obfuscated.pdf"
      [] name = "missing.pdf" -> "missing_obfuscated.pdf"
      [] name = "out.pdf" -> "out_obfuscated.pdf"
      [] OTHER -> "_obfuscated.pdf"

RECURSIVE ReplaceDir(_)
ReplaceDir(parts) ==
    IF Len(parts) < 2 THEN parts
    ELSE IF parts[1] = "data" /\ parts[2] = "input"
         THEN <<"data", "output">> \o ReplaceDir(Tail(Tail(parts)))
         ELSE <<Head(parts)>> \o ReplaceDir(Tail(parts))

HasInputDir(parts) ==
    \E i \in 1..(Len(parts) - 1) : parts[i] = "data" /\ parts[i + 1] = "input"

\* ConfigurationService.get_default_output_path; Path(None) raises TypeError,
\* which the callers of this operator test with p.tag before using it
get_default_output_path(p) ==
    LET path == PurePath(p.parts)
    IN  IF HasInputDir(path) THEN Str(ReplaceDir(path))
        ELSE IF path = <<>> THEN Str(<<StemWithSuffix("")>>)
        ELSE Str(SubSeq(path, 1, Len(path) - 1) \o <<StemWithSuffix(path[Len(path)])>>)

supported_engines == {"pymupdf", "pypdfium2", "pdfplumber"}

\* ConfigurationService.validate_engine
validate_engine(e) == e \in supported_engines

\* -------------------------------------------------------------- documents
Position(x0, y0, x1, y1) == [x0 |-> x0, y0 |-> y0, x1 |-> x1, y1 |-> y1]

B1 == Position(10, 10, 20, 20)
B2 == Position(30, 10, 40, 20)

\* a page: its text layer (words with boxes), the rectangle annotations laid
\* over it (annots), the opaque rectangles burnt into its pixels (covers),
\* whether it is the original vector page or a raster image, and the number
\* of the input page it renders
Word(text, box) == [text |-> text, box |-> box]

\* a page's media box in PDF user space (origin bottom-left, y upward); the
\* boxes of the words are measured from the page's top-left corner, y downward
MediaBox(x0, y0, x1, y1) == [x0 |-> x0, y0 |-> y0, x1 |-> x1, y1 |-> y1]
MediaBox0 == MediaBox(0, 0, 200, 50)
PageWidth(page) == page.mediabox.x1 - page.mediabox.x0
PageHeight(page) == page.mediabox.y1 - page.mediabox.y0

OffsetPage(words, n, mediabox) ==
    [layer |-> "vector", words |-> words, covers |-> <<>>, annots |-> <<>>, src |-> n,
     mediabox |-> mediabox]
VectorPage(words, n) == OffsetPage(words, n, MediaBox0)

Pdf(pages) == [kind |-> "pdf", pages |-> pages]
Absent == [kind |-> "absent", pages |-> <<>>]
Truncated == [kind |-> "truncated", pages |-> <<>>]
Dir == [kind |-> "dir", pages |-> <<>>]

SrcDoc ==
    Pdf(<< VectorPage(<<Word(<<"a">>, B1), Word(<<"b">>, B2)>>, 1),
           VectorPage(<<Word(<<"A">>, B1)>>, 2) >>)

OldDoc == Pdf(<< VectorPage(<<Word(<<"b">>, B1)>>, 1) >>)

SrcFile == <<"/", "base", "a.pdf">>
OutFile == <<"/", "base", "out.pdf">>
DefaultFile == <<"/", "base", "a_obfuscated.pdf">>
FileIds == {SrcFile, OutFile, DefaultFile}

InitFiles == [f \in FileIds |-> IF f = SrcFile THEN SrcDoc
                                ELSE IF f = OutFile THEN OldDoc ELSE Absent]

\* LocalStorageAdapter.file_exists
file_exists(fs, p) ==
    LET f == _resolve_path(p)
    IN  f \in DOMAIN fs /\ fs[f].kind \notin {"absent", "dir"}

\* ------------------------------------------------------- domain entities
TermOccurrence(term, position, page_number) ==
    [term |-> term, position |-> position, page_number |-> page_number]

\* TermResult.occurrences_count
occurrences_count(r) == Len(r.occurrences)

\* TermResult.was_found
was_found(r) == r.status = "success" /\ Len(r.occurrences) > 0

\* ------------------------------------------------------------ exceptions
Exc(type, msg) == [type |-> type, msg |-> msg]
NoExc == Exc("none", <<>>)

\* ------------------------------------------ DocumentObfuscationService
\* create_term_results: one TermResult per term, filtering the accumulated
\* occurrences on case-insensitive equality of the term text
create_term_results(term_list, occurrences) ==
    [i \in 1..Len(term_list) |->
        LET Same(occ) == Lower(occ.term) = Lower(term_list[i])
            term_occurrences == SelectSeq(occurrences, Same)
        IN  IF term_occurrences # <<>>
            THEN [term |-> term_list[i], status |-> "success",
                  occurrences |-> term_occurrences,
                  message |-> [fmt |-> "Found {n} occurrences", n |-> Len(term_occurrences)]]
            ELSE [term |-> term_list[i], status |-> "not_found",
                  occurrences |-> term_occurrences,
                  message |-> [fmt |-> "Term not found", n |-> 0]]]

\* validate_obfuscation_request without the source/destination rule
validate_obfuscation_request_no_path_rule(request) ==
    IF request.terms_to_obfuscate = <<>>
    THEN Exc("ObfuscationError", <<"Must specify at least one term to obfuscate">>)
    ELSE IF \E i \in 1..Len(request.terms_to_obfuscate) :
                Strip(request.terms_to_obfuscate[i]) = <<>>
    THEN Exc("ObfuscationError", <<"All terms must be non-empty">>)
    ELSE NoExc

\* validate_obfuscation_request: the exception it raises, NoExc if none
validate_obfuscation_request(request) ==
    IF request.terms_to_obfuscate = <<>>
    THEN Exc("ObfuscationError", <<"Must specify at least one term to obfuscate">>)
    ELSE IF \E i \in 1..Len(request.terms_to_obfuscate) :
                Strip(request.terms_to_obfuscate[i]) = <<>>
    THEN Exc("ObfuscationError", <<"All terms must be non-empty">>)
    ELSE IF request.source_document = request.destination_path
    THEN Exc("ObfuscationError", <<"Source and destination paths cannot be the same">>)
    ELSE NoExc

\* calculate_obfuscation_metrics summing over every term result, found or not
calculate_obfuscation_metrics_all_statuses(term_results) ==
    << Len(term_results),
       SumSeq([i \in 1..Len(term_results) |-> occurrences_count(term_results[i])]) >>

\* calculate_obfuscation_metrics: <<total_terms_processed, total_occurrences_obfuscated>>
calculate_obfuscation_metrics(term_results) ==
    << Len(term_results),
       SumSeq([i \in 1..Len(term_results) |->
                 IF was_found(term_results[i]) THEN occurrences_count(term_results[i]) ELSE 0]) >>

create_success_result(output_document, term_results, engine_name) ==
    LET metrics == calculate_obfuscation_metrics(term_results)
    IN  [success |-> TRUE,
         output_document |-> output_document,
         term_results |-> term_results,
         total_terms_processed |-> metrics[1],
         total_occurrences_obfuscated |-> metrics[2],
         message |-> <<"Obfuscation completed successfully using ", engine_name>>,
         error |-> <<>>]

\* create_error_result that reports the run as successful
create_error_result_as_success(error, term_results, engine_name) ==
    LET metrics == calculate_obfuscation_metrics(term_results)
    IN  [success |-> TRUE,
         output_document |-> None,
         term_results |-> term_results,
         total_terms_processed |-> metrics[1],
         total_occurrences_obfuscated |-> 0,
         message |-> <<"Obfuscation failed using ", engine_name>>,
         error |-> error]

\* error is the empty sequence for None
create_error_result(error, term_results, engine_name) ==
    LET metrics == calculate_obfuscation_metrics(term_results)
    IN  [success |-> FALSE,
         output_document |-> None,
         term_results |-> term_results,
         total_terms_processed |-> metrics[1],
         total_occurrences_obfuscated |-> 0,
         message |-> <<"Obfuscation failed using ", engine_name>>,
         error |-> error]

\* ----------------------------------------------------------- ErrorHandler
\* handle_obfuscation_error: the error result for an exception by its type
ErrorPrefix(type) ==
    CASE type = "ObfuscationError" -> <<>>
      [] type = "DocumentProcessingError" -> <<"Document processing error: ">>
      [] type = "FileStorageError" -> <<"File storage error: ">>
      [] OTHER -> <<"Unexpected error during ", "obfuscate_document", ": ">>

handle_obfuscation_error(exc, engine_name) ==
    create_error_result(ErrorPrefix(exc.type) \o exc.msg, <<>>, engine_name)

\* ------------------------------------------------- PDF adapters: redaction
Ok(doc) == [ok |-> TRUE, doc |-> doc, exc |-> NoExc]
Err(exc) == [ok |-> FALSE, doc |-> Absent, exc |-> exc]

FailPoints == {"none", "read", "open", "paint", "serialize"}

OccsOnPage(occurrences, n) ==
    LET OnPage(occ) == occ.page_number = n
    IN  SelectSeq(occurrences, OnPage)

Positions(occurrences) == [i \in 1..Len(occurrences) |-> occurrences[i].position]

\* a rasterised page: no text layer, the painted rectangles burnt in
ImagePage(covers, n) == [layer |-> "image", words |-> <<>>, covers |-> covers, annots |-> <<>>, src |-> n]

\* PyMuPdfAdapter.obfuscate_occurrences, lines 94-118: one opaque rectangle
\* annotation per occurrence on the page it names (still a vector document)
AddRectAnnots(doc, occurrences) ==
    Pdf([n \in 1..Len(doc.pages) |->
           [doc.pages[n] EXCEPT !.annots = Positions(OccsOnPage(occurrences, n))]])

\* PyMuPdfAdapter._flatten_pdf_content: every page rendered to an image and
\* a new document built from the images only
_flatten_pdf_content(doc, fail) ==
    IF fail = "serialize"
    THEN Err(Exc("DocumentProcessingError", <<"Error during flattening: ", "{cause}">>))
    ELSE Ok(Pdf([n \in 1..Len(doc.pages) |-> ImagePage(doc.pages[n].covers \o doc.pages[n].annots, doc.pages[n].src)]))

\* obfuscate_occurrences returning the annotated document without flattening
PyMuPdfObfuscateUnflattened(content, occurrences, fail) ==
    IF fail \in {"read", "open", "paint"} \/ content.kind # "pdf"
    THEN Err(Exc("DocumentProcessingError", <<"Error during obfuscation: ", "{cause}">>))
    ELSE IF \E i \in 1..Len(occurrences) : occurrences[i].page_number > Len(content.pages)
    THEN Err(Exc("DocumentProcessingError", <<"Error during obfuscation: ", "page not in document">>))
    ELSE Ok(AddRectAnnots(content, occurrences))

\* PyMuPdfAdapter.obfuscate_occurrences
PyMuPdfObfuscate(content, occurrences, fail) ==
    IF fail \in {"read", "open", "paint"} \/ content.kind # "pdf"
    THEN Err(Exc("DocumentProcessingError", <<"Error during obfuscation: ", "{cause}">>))
    ELSE IF \E i \in 1..Len(occurrences) : occurrences[i].page_number > Len(content.pages)
    THEN Err(Exc("DocumentProcessingError", <<"Error during obfuscation: ", "page not in document">>))
    ELSE LET flattened == _flatten_pdf_content(AddRectAnnots(content, occurrences), fail)
         IN  IF flattened.ok THEN flattened
             ELSE Err(Exc("DocumentProcessingError",
                          <<"Error during obfuscation: ">> \o flattened.exc.msg))

\* PyPdfium2Adapter.obfuscate_occurrences: every page of the input is
\* rendered, the occurrences grouped under that page index are painted on
\* the raster, and the raster becomes the output page
PyPdfium2Obfuscate(content, occurrences, fail) ==
    IF fail # "none" \/ content.kind # "pdf"
    THEN Err(Exc("DocumentProcessingError",
                 <<"Failed to obfuscate with pypdfium2+PIL+ReportLab: ", "{cause}">>))
    ELSE Ok(Pdf([n \in 1..Len(content.pages) |->
                   ImagePage(Positions(OccsOnPage(occurrences, n)), content.pages[n].src)]))

\* obfuscate_occurrences keeping only the pages that carry an occurrence
PdfPlumberObfuscateTouchedPagesOnly(content, occurrences, fail) ==
    IF fail # "none" \/ content.kind # "pdf" \/ content.pages = <<>>
    THEN Err(Exc("DocumentProcessingError", <<"Error during obfuscation: ", "{cause}">>))
    ELSE LET Touched(page) == OccsOnPage(occurrences, page.src) # <<>>
             kept == SelectSeq(content.pages, Touched)
         IN  Ok(Pdf([n \in 1..Len(kept) |->
                       ImagePage(Positions(OccsOnPage(occurrences, kept[n].src)), kept[n].src)]))

\* PdfPlumberAdapter.obfuscate_occurrences: the pages converted to images,
\* the images whose index has occurrences painted, all images saved as PDF
PdfPlumberObfuscate(content, occurrences, fail) ==
    IF fail # "none" \/ content.kind # "pdf" \/ content.pages = <<>>
    THEN Err(Exc("DocumentProcessingError", <<"Error during obfuscation: ", "{cause}">>))
    ELSE Ok(Pdf([n \in 1..Len(content.pages) |->
                   IF OccsOnPage(occurrences, n) # <<>>
                   THEN ImagePage(Positions(OccsOnPage(occurrences, n)), content.pages[n].src)
                   ELSE ImagePage(<<>>, content.pages[n].src)]))

\* PdfProcessorPort.obfuscate_occurrences of the processor the factory
\* created for the engine
obfuscate_occurrences(eng, content, occurrences, fail) ==
    CASE eng = "pymupdf" -> PyMuPdfObfuscate(content, occurrences, fail)
      [] eng = "pypdfium2" -> PyPdfium2Obfuscate(content, occurrences, fail)
      [] OTHER -> PdfPlumberObfuscate(content, occurrences, fail)

\* get_engine_info()["name"] of each adapter
_get_engine_name(eng) ==
    CASE eng = "pymupdf" -> "pymupdf"
      [] eng = "pypdfium2" -> "pypdfium2+PIL+ReportLab"
      [] OTHER -> "pdfplumber+Pillow"

\* --------------------------------------------- PDF adapters: text search
ExtractOk(occs) == [ok |-> TRUE, occs |-> occs, exc |-> NoExc]
ExtractErr(prefix) ==
    [ok |-> FALSE, occs |-> <<>>, exc |-> Exc("DocumentProcessingError", <<prefix, "{cause}">>)]

ExtractFailPoints == {"none", "read", "open", "search"}

\* the bounding box of a non-empty sequence of boxes
UnionBox(boxes) ==
    LET I == 1..Len(boxes)
    IN  Position(CHOOSE v \in {boxes[i].x0 : i \in I} : \A i \in I : v <= boxes[i].x0,
                 CHOOSE v \in {boxes[i].y0 : i \in I} : \A i \in I : v <= boxes[i].y0,
                 CHOOSE v \in {boxes[i].x1 : i \in I} : \A i \in I : v >= boxes[i].x1,
                 CHOOSE v \in {boxes[i].y1 : i \in I} : \A i \in I : v >= boxes[i].y1)

Boxes(words) == [i \in 1..Len(words) |-> words[i].box]

\* the box of the characters pos+1 .. pos+n of a word whose glyphs have equal
\* widths (pos counted from 0); the words of the model have widths their
\* lengths divide, so the quotients are exact
SubBox(word, pos, n) ==
    LET word_width == word.box.x1 - word.box.x0
        term_x0 == word.box.x0 + (pos * word_width) \div Len(word.text)
    IN  Position(term_x0, word.box.y0, term_x0 + (n * word_width) \div Len(word.text), word.box.y1)

\* the windows of k consecutive words whose texts are the k given words,
\* ignoring case, by the index of their first word
PhraseStarts(words, needle_words) ==
    LET k == Len(needle_words)
        Matches(i) == \A j \in 1..k : Lower(words[i + j - 1].text) = Lower(needle_words[j])
    IN  SelectSeq([i \in 1..(IF Len(words) >= k THEN Len(words) - k + 1 ELSE 0) |-> i], Matches)

\* the engines' own search primitive (fitz Page.search_for, pdfium
\* PdfTextPage.search with match_case=False, match_whole_word=False): the
\* boxes of the hits of the needle on the page, ignoring case, measured from
\* the page's top-left corner. A needle of one word hits inside words; a
\* needle of several words hits runs of consecutive words.
search_for(page, needle) ==
    LET needle_words == Split(needle)
    IN  IF Len(needle_words) <= 1
        THEN FlattenSeq([w \in 1..Len(page.words) |->
                 LET at == FindAllFrom(Lower(page.words[w].text), Lower(needle), 1)
                 IN  [h \in 1..Len(at) |-> SubBox(page.words[w], at[h] - 1, Len(needle))]])
        ELSE LET starts == PhraseStarts(page.words, needle_words)
             IN  [h \in 1..Len(starts) |->
                    UnionBox(Boxes(SubSeq(page.words, starts[h], starts[h] + Len(needle_words) - 1)))]

\* `if t not in seen: seen.add(t); unique.append(x)`: the first of each
RECURSIVE Unique(_)
Unique(s) ==
    IF s = <<>> THEN <<>>
    ELSE LET init == Unique(SubSeq(s, 1, Len(s) - 1))
             last == s[Len(s)]
         IN  IF \E i \in 1..Len(init) : init[i] = last THEN init ELSE Append(init, last)

\* PyMuPdfAdapter.extract_text_occurrences, lines 37-69, for one page
PyMuPdfPageOccurrences(page, term, n) ==
    LET variations == <<term, Lower(term), Upper(term), Capitalize(term)>>
        text_instances == FlattenSeq([v \in 1..4 |-> search_for(page, variations[v])])
        unique_instances == Unique(text_instances)
    IN  [i \in 1..Len(unique_instances) |-> TermOccurrence(term, unique_instances[i], n)]

\* PyMuPdfAdapter.extract_text_occurrences
PyMuPdfExtract(content, term, fail) ==
    IF fail # "none" \/ content.kind # "pdf"
    THEN ExtractErr("Error during text extraction: ")
    ELSE ExtractOk(FlattenSeq([n \in 1..Len(content.pages) |->
                       PyMuPdfPageOccurrences(content.pages[n], term, n)]))

\* PdfTextPage.get_charbox: (left, bottom, right, top) of a hit in PDF user
\* space, whose origin is the bottom-left of the coordinate system the media
\* box is given in and whose y grows upward
get_charbox(page, box) ==
    [left |-> page.mediabox.x0 + box.x0,
     bottom |-> page.mediabox.y1 - box.y1,
     right |-> page.mediabox.x0 + box.x1,
     top |-> page.mediabox.y1 - box.y0]

Min2(a, b) == IF a <= b THEN a ELSE b
Max2(a, b) == IF a >= b THEN a ELSE b

\* PyPdfium2Adapter.extract_text_occurrences, lines 43-90, for one page: the
\* char box of each hit is ordered and stored as it is
PyPdfium2PageOccurrences(page, term, n) ==
    LET results == search_for(page, term)
        coord_tuples == [i \in 1..Len(results) |->
            LET cb == get_charbox(page, results[i])
            IN  Position(Min2(cb.left, cb.right), Min2(cb.top, cb.bottom),
                         Max2(cb.left, cb.right), Max2(cb.top, cb.bottom))]
        unique_results == Unique(coord_tuples)
    IN  [i \in 1..Len(unique_results) |-> TermOccurrence(term, unique_results[i], n)]

\* PyPdfium2Adapter.extract_text_occurrences
PyPdfium2Extract(content, term, fail) ==
    IF fail # "none" \/ content.kind # "pdf"
    THEN ExtractErr("Failed to extract text with pypdfium2: ")
    ELSE ExtractOk(FlattenSeq([n \in 1..Len(content.pages) |->
                       PyPdfium2PageOccurrences(content.pages[n], term, n)]))

\* sorted(words, key=...) and list.sort(key=...) are stable sorts; the key
\* is w['x0'] (by = "x0") or (w['top'], w['x0'])
KeyLeq(by, a, b) ==
    IF by = "x0" THEN a.box.x0 <= b.box.x0
    ELSE a.box.y0 < b.box.y0 \/ (a.box.y0 = b.box.y0 /\ a.box.x0 <= b.box.x0)

RECURSIVE InsertSorted(_, _, _)
InsertSorted(sorted, w, by) ==
    IF sorted = <<>> THEN <<w>>
    ELSE IF KeyLeq(by, Head(sorted), w)
         THEN <<Head(sorted)>> \o InsertSorted(Tail(sorted), w, by)
         ELSE <<w>> \o sorted

RECURSIVE Sorted(_, _)
Sorted(words, by) ==
    IF words = <<>> THEN <<>>
    ELSE InsertSorted(Sorted(SubSeq(words, 1, Len(words) - 1), by), words[Len(words)], by)

\* lines 157-174: a gap of more than 50 between a word's x0 and the x1 of the
\* word before it in x0 order starts a new column
RECURSIVE SplitColumns(_, _, _)
SplitColumns(sorted_words, i, columns) ==
    IF i > Len(sorted_words) THEN columns
    ELSE LET gap == sorted_words[i].box.x0 - sorted_words[i - 1].box.x1
         IN  IF gap > 50
             THEN SplitColumns(sorted_words, i + 1, Append(columns, <<sorted_words[i]>>))
             ELSE SplitColumns(sorted_words, i + 1,
                               [columns EXCEPT ![Len(columns)] = Append(@, sorted_words[i])])

\* _group_words_by_columns returning the columns in x0 order, without the
\* sort inside each column
_group_words_by_columns_in_x0_order(words) ==
    IF words = <<>> THEN <<>>
    ELSE LET sorted_words == Sorted(words, "x0")
         IN  SplitColumns(sorted_words, 2, << <<sorted_words[1]>> >>)

\* PdfPlumberAdapter._group_words_by_columns
_group_words_by_columns(words) ==
    IF words = <<>> THEN <<>>
    ELSE LET sorted_words == Sorted(words, "x0")
             columns == SplitColumns(sorted_words, 2, << <<sorted_words[1]>> >>)
         IN  [c \in 1..Len(columns) |-> Sorted(columns[c], "top_x0")]

\* PdfPlumberAdapter._find_term_in_column: an index is appended once for
\* every term word the column word matches; every window of len(term_words)
\* entries whose joined text matches gives an occurrence
_find_term_in_column(column_words, term_words, term_text, page_number) ==
    LET k == Len(term_words)
        matching_word_indices ==
            FlattenSeq([i \in 1..Len(column_words) |->
                FlattenSeq([t \in 1..k |->
                    LET word_text == Lower(column_words[i].text)
                    IN  IF Contains(word_text, Lower(term_words[t]))
                           \/ Contains(Lower(term_words[t]), word_text)
                        THEN <<i>> ELSE <<>>])])
        matching_words == [m \in 1..Len(matching_word_indices) |->
                              column_words[matching_word_indices[m]]]
        SequenceAt(i) == SubSeq(matching_words, i, i + k - 1)
        sequence_text(i) == Join([w \in 1..k |-> Lower(SequenceAt(i)[w].text)])
    IN  IF Len(matching_word_indices) >= k
        THEN FlattenSeq([i \in 1..(Len(matching_words) - k + 1) |->
                 IF Contains(sequence_text(i), term_text) \/ Contains(term_text, sequence_text(i))
                 THEN <<TermOccurrence(term_text, UnionBox(Boxes(SequenceAt(i))), page_number)>>
                 ELSE <<>>])
        ELSE <<>>

\* PdfPlumberAdapter.extract_text_occurrences, lines 53-133, for one page;
\* page.words are the words extract_words() gives, x0/x1/top/bottom measured
\* from the page's top-left corner
PdfPlumberPageOccurrences(page, term, n) ==
    LET words == page.words
        term_text == Lower(term)
        term_words == Split(term)
        k == Len(term_words)
    IN  IF k = 1
        THEN FlattenSeq([w \in 1..Len(words) |->
                 IF Contains(Lower(words[w].text), term_text)
                 THEN <<TermOccurrence(term,
                            SubBox(words[w], Find(Lower(words[w].text), term_text), Len(term_text)),
                            n)>>
                 ELSE <<>>])
        ELSE LET starts == PhraseStarts(words, term_words)
                 columns == _group_words_by_columns(words)
             IN  IF starts # <<>>
                 THEN [h \in 1..Len(starts) |->
                         TermOccurrence(term,
                             UnionBox(Boxes(SubSeq(words, starts[h], starts[h] + k - 1))), n)]
                 ELSE FlattenSeq([c \in 1..Len(columns) |->
                          IF Len(columns[c]) >= k
                          THEN _find_term_in_column(columns[c], term_words, term_text, n)
                          ELSE <<>>])

\* PdfPlumberAdapter.extract_text_occurrences
PdfPlumberExtract(content, term, fail) ==
    IF fail # "none" \/ content.kind # "pdf"
    THEN ExtractErr("Error during text extraction with pdfplumber: ")
    ELSE ExtractOk(FlattenSeq([n \in 1..Len(content.pages) |->
                       PdfPlumberPageOccurrences(content.pages[n], term, n)]))

\* PdfProcessorPort.extract_text_occurrences of the processor the factory
\* created for the engine
extract_text_occurrences(eng, content, term, fail) ==
    CASE eng = "pymupdf" -> PyMuPdfExtract(content, term, fail)
      [] eng = "pypdfium2" -> PyPdfium2Extract(content, term, fail)
      [] OTHER -> PdfPlumberExtract(content, term, fail)

\* ------------------------------------- PDF adapters: document handles
\* how many native document handles a call opened and how many of them it
\* closed before it returned or raised
Handles(opened, closed) == [opened |-> opened, closed |-> closed]

\* PyMuPdfAdapter.extract_text_occurrences: fitz.open at line 34, close at
\* line 71 on the normal path only
PyMuPdfExtractHandles(content, fail) ==
    IF fail \in {"read", "open"} \/ content.kind # "pdf" THEN Handles(0, 0)
    ELSE IF fail = "search" THEN Handles(1, 0)
    ELSE Handles(1, 1)

\* PyMuPdfAdapter.obfuscate_occurrences with _flatten_pdf_content: fitz.open
\* at lines 92 and 142, close at lines 164 and 122 on the normal path only
PyMuPdfObfuscateHandles(content, occurrences, fail) ==
    IF fail \in {"read", "open"} \/ content.kind # "pdf" THEN Handles(0, 0)
    ELSE IF fail = "paint"
            \/ \E i \in 1..Len(occurrences) : occurrences[i].page_number > Len(content.pages)
    THEN Handles(1, 0)
    ELSE IF fail = "serialize" THEN Handles(2, 0)
    ELSE Handles(2, 2)

\* PyPdfium2Adapter.extract_text_occurrences: PdfDocument at line 34, close
\* at line 93 on the normal path only
PyPdfium2ExtractHandles(content, fail) ==
    IF fail \in {"read", "open"} \/ content.kind # "pdf" THEN Handles(0, 0)
    ELSE IF fail = "search" THEN Handles(1, 0)
    ELSE Handles(1, 1)

\* PyPdfium2Adapter.obfuscate_occurrences: PdfDocument at line 105, close at
\* line 196 on the normal path only
PyPdfium2ObfuscateHandles(content, occurrences, fail) ==
    IF fail \in {"read", "open"} \/ content.kind # "pdf" THEN Handles(0, 0)
    ELSE IF fail \in {"paint", "serialize"} THEN Handles(1, 0)
    ELSE Handles(1, 1)

\* PdfPlumberAdapter: the document is opened in a `with` statement (lines 50
\* and 269), which closes it on every exit
PdfPlumberExtractHandles(content, fail) ==
    IF fail \in {"read", "open"} \/ content.kind # "pdf" THEN Handles(0, 0)
    ELSE Handles(1, 1)

PdfPlumberObfuscateHandles(content, occurrences, fail) ==
    IF fail \in {"read", "open"} \/ content.kind # "pdf" THEN Handles(0, 0)
    ELSE Handles(1, 1)

extract_handles(eng, content, fail) ==
    CASE eng = "pymupdf" -> PyMuPdfExtractHandles(content, fail)
      [] eng = "pypdfium2" -> PyPdfium2ExtractHandles(content, fail)
      [] OTHER -> PdfPlumberExtractHandles(content, fail)

obfuscate_handles(eng, content, occurrences, fail) ==
    CASE eng = "pymupdf" -> PyMuPdfObfuscateHandles(content, occurrences, fail)
      [] eng = "pypdfium2" -> PyPdfium2ObfuscateHandles(content, occurrences, fail)
      [] OTHER -> PdfPlumberObfuscateHandles(content, occurrences, fail)

\* ------------------------------------------- QualityEvaluationService
\* A text is a sequence of characters; "a_grave" stands for the one
\* character a-with-grave-accent and "rsquo" for the right single quote.

\* a score is the exact quotient num / den (den > 0); a score rounded to
\* three places has den = 1000
Frac(num, den) == [num |-> num, den |-> den]

\* the thousandths of num / den cut off after the third place
Round3Truncating(num, den) == (1000 * num) \div den

\* round(num / den, 3) in thousandths, halves to the even neighbour; den > 0
Round3(num, den) ==
    LET twice == 2000 * num
        low == twice \div (2 * den)
        rest == twice - low * 2 * den
    IN  IF rest > den THEN low + 1
        ELSE IF rest < den THEN low
        ELSE IF low % 2 = 0 THEN low ELSE low + 1

\* the order of the characters by code point
CharOrder == <<" ", "\"", "'", ".", "A", "B", "Z", "a", "b", "c", "d", "z", "a_grave", "rsquo">>
CharRank(c) == CHOOSE i \in 1..Len(CharOrder) : CharOrder[i] = c

\* a <= b for two strings
RECURSIVE StrLeq(_, _)
StrLeq(a, b) ==
    IF a = <<>> THEN TRUE
    ELSE IF b = <<>> THEN FALSE
    ELSE IF Head(a) = Head(b) THEN StrLeq(Tail(a), Tail(b))
    ELSE CharRank(Head(a)) < CharRank(Head(b))

\* list.sort() of a list of strings
RECURSIVE SortWords(_)
SortWords(words) ==
    IF words = <<>> THEN <<>>
    ELSE LET init == SortWords(SubSeq(words, 1, Len(words) - 1))
             last == words[Len(words)]
             Before(w) == StrLeq(w, last)
             After(w) == ~StrLeq(w, last)
         IN  SelectSeq(init, Before) \o <<last>> \o SelectSeq(init, After)

\* \w of the regular expression
IsWordChar(c) == c \notin {" ", "\"", "'", ".", "rsquo"}

\* re.sub(r'^[^\w]+|[^\w]+$', '', word)
RECURSIVE StripLeadingNonWord(_)
StripLeadingNonWord(w) ==
    IF w # <<>> /\ ~IsWordChar(Head(w)) THEN StripLeadingNonWord(Tail(w)) ELSE w

RECURSIVE StripTrailingNonWord(_)
StripTrailingNonWord(w) ==
    IF w # <<>> /\ ~IsWordChar(w[Len(w)])
    THEN StripTrailingNonWord(SubSeq(w, 1, Len(w) - 1)) ELSE w

StripNonWord(w) == StripTrailingNonWord(StripLeadingNonWord(w))

\* normalize_punctuation: quote variants to straight quotes, accents removed
NormalizeChar(c) ==
    CASE c = "rsquo" -> "'"
      [] c = "a_grave" -> "a"
      [] OTHER -> c

normalize_punctuation(text) == [i \in 1..Len(text) |-> NormalizeChar(text[i])]

\* evaluate_precision, lines 135-140: the cleaned and normalized words
CleanedWords(text) ==
    LET words_raw == Split(Lower(text))
        NonEmpty(w) == StripNonWord(w) # <<>>
        kept == SelectSeq(words_raw, NonEmpty)
    IN  [i \in 1..Len(kept) |-> normalize_punctuation(StripNonWord(kept[i]))]

\* lines 143-144: the word list sorted
CleanWords(text) == SortWords(CleanedWords(text))

\* list.remove(x): the list without the first x
RECURSIVE RemoveFirst(_, _)
RemoveFirst(list, x) ==
    IF list = <<>> THEN <<>>
    ELSE IF Head(list) = x THEN Tail(list)
    ELSE <<Head(list)>> \o RemoveFirst(Tail(list), x)

InList(x, list) == \E i \in 1..Len(list) : list[i] = x

\* the loop without the removal: a word is missing only if the obfuscated
\* list does not hold it at all
RECURSIVE RemovalLoopSetDifference(_, _, _)
RemovalLoopSetDifference(original_words, obfuscated_words, i) ==
    IF i = 0 THEN << <<>>, obfuscated_words >>
    ELSE LET before == RemovalLoopSetDifference(original_words, obfuscated_words, i - 1)
             word == original_words[i]
         IN  IF InList(word, before[2])
             THEN before
             ELSE << Append(before[1], word), before[2] >>

\* evaluate_precision, lines 147-157: <<remaining_words_original,
\* remaining_words_obfuscated>> after the loop over the first i original words
RECURSIVE RemovalLoop(_, _, _)
RemovalLoop(original_words, obfuscated_words, i) ==
    IF i = 0 THEN << <<>>, obfuscated_words >>
    ELSE LET before == RemovalLoop(original_words, obfuscated_words, i - 1)
             word == original_words[i]
         IN  IF InList(word, before[2])
             THEN << before[1], RemoveFirst(before[2], word) >>
             ELSE << Append(before[1], word), before[2] >>

\* _find_terms_in_text comparing without lowering
_find_terms_in_text_case_sensitive(text, terms) ==
    LET Found(term) == Contains(text, term)
    IN  SelectSeq(terms, Found)

\* _find_terms_in_text
_find_terms_in_text(text, terms) ==
    LET Found(term) == Contains(Lower(text), Lower(term))
    IN  SelectSeq(terms, Found)

\* evaluate_completeness on the two extracted texts
evaluate_completeness(original_text, obfuscated_text, terms_to_obfuscate) ==
    LET original_terms == _find_terms_in_text(original_text, terms_to_obfuscate)
        obfuscated_terms == _find_terms_in_text(obfuscated_text, terms_to_obfuscate)
        total_terms_found == Len(original_terms)
        successfully_obfuscated == total_terms_found - Len(obfuscated_terms)
    IN  [score |-> IF total_terms_found > 0
                   THEN Frac(successfully_obfuscated, total_terms_found)
                   ELSE Frac(1, 1),
         total_terms_found |-> total_terms_found,
         successfully_obfuscated |-> successfully_obfuscated,
         remaining_terms |-> obfuscated_terms,
         original_terms |-> original_terms]

\* lines 160-168: a target term, normalized and lowered, with its words
TargetData(term) ==
    LET target_term == Lower(normalize_punctuation(term))
    IN  [term |-> target_term,
         words |-> IF Contains(target_term, <<" ">>) THEN Split(target_term)
                   ELSE <<target_term>>]

\* _is_word_obfuscation_target_optimized
_is_word_obfuscation_target_optimized(missing_word, target_data) ==
    LET missing_word_normalized == normalize_punctuation(missing_word)
    IN  IF missing_word_normalized = target_data.term THEN TRUE
        ELSE IF Len(target_data.words) > 1
        THEN InList(missing_word_normalized,
                    [i \in 1..Len(target_data.words) |-> normalize_punctuation(target_data.words[i])])
        ELSE Len(missing_word_normalized) >= 2
             /\ Contains(target_data.term, missing_word_normalized)

\* evaluate_precision comparing the two word lists position by position: a
\* word is missing when the obfuscated list has another word, or none, at
\* its index
evaluate_precision_positional(original_text, obfuscated_text, terms_to_obfuscate) ==
    LET original_words == CleanedWords(original_text)
        obfuscated_words == CleanedWords(obfuscated_text)
        Differs(i) == i > Len(obfuscated_words) \/ obfuscated_words[i] # original_words[i]
        missing_at == SelectSeq([i \in 1..Len(original_words) |-> i], Differs)
        missing_words == [m \in 1..Len(missing_at) |-> original_words[missing_at[m]]]
        target_terms_data == [t \in 1..Len(terms_to_obfuscate) |-> TargetData(terms_to_obfuscate[t])]
        Intentional(w) == \E t \in 1..Len(target_terms_data) :
                              _is_word_obfuscation_target_optimized(w, target_terms_data[t])
        FalsePositive(w) == ~Intentional(w)
        true_false_positives == SelectSeq(missing_words, FalsePositive)
        total_original_words == Len(original_words)
    IN  [score |-> IF total_original_words > 0
                   THEN Frac(Round3(total_original_words - Len(true_false_positives),
                                    total_original_words), 1000)
                   ELSE Frac(1, 1),
         total_disappeared_terms |-> Len(missing_words),
         false_positive_count |-> Len(true_false_positives),
         total_original_words |-> total_original_words,
         original_words |-> original_words,
         obfuscated_words |-> obfuscated_words,
         missing_words |-> missing_words,
         targeted_terms_found |-> SelectSeq(missing_words, Intentional),
         false_positives |-> true_false_positives,
         remaining_words_obfuscated |-> obfuscated_words]

\* evaluate_precision on the two extracted texts
evaluate_precision(original_text, obfuscated_text, terms_to_obfuscate) ==
    LET original_words == CleanWords(original_text)
        obfuscated_words == CleanWords(obfuscated_text)
        loop == RemovalLoop(original_words, obfuscated_words, Len(original_words))
        missing_words == loop[1]
        target_terms_data == [t \in 1..Len(terms_to_obfuscate) |-> TargetData(terms_to_obfuscate[t])]
        Intentional(w) == \E t \in 1..Len(target_terms_data) :
                              _is_word_obfuscation_target_optimized(w, target_terms_data[t])
        FalsePositive(w) == ~Intentional(w)
        true_false_positives == SelectSeq(missing_words, FalsePositive)
        total_original_words == Len(original_words)
    IN  [score |-> IF total_original_words > 0
                   THEN Frac(Round3(total_original_words - Len(true_false_positives),
                                    total_original_words), 1000)
                   ELSE Frac(1, 1),
         total_disappeared_terms |-> Len(missing_words),
         false_positive_count |-> Len(true_false_positives),
         total_original_words |-> total_original_words,
         original_words |-> original_words,
         obfuscated_words |-> obfuscated_words,
         missing_words |-> missing_words,
         targeted_terms_found |-> SelectSeq(missing_words, Intentional),
         false_positives |-> true_false_positives,
         remaining_words_obfuscated |-> loop[2]]

\* evaluate_visual_integrity: a placeholder that always scores 1.0
evaluate_visual_integrity == [score |-> Frac(1, 1), page_count_match |-> TRUE]

\* the weights of the shadowed module domain/services.py: 0.4, 0.35, 0.25
calculate_overall_score_services_py(completeness_score, precision_score, visual_integrity_score) ==
    LET c == completeness_score
        p == precision_score
        v == visual_integrity_score
    IN  Frac(Round3(40 * c.num * p.den * v.den + 35 * p.num * c.den * v.den
                        + 25 * v.num * c.den * p.den,
                    100 * c.den * p.den * v.den), 1000)

\* calculate_overall_score: round(0.45 c + 0.45 p + 0.10 v, 3)
calculate_overall_score(completeness_score, precision_score, visual_integrity_score) ==
    LET c == completeness_score
        p == precision_score
        v == visual_integrity_score
    IN  Frac(Round3(45 * c.num * p.den * v.den + 45 * p.num * c.den * v.den
                        + 10 * v.num * c.den * p.den,
                    100 * c.den * p.den * v.den), 1000)

\* create_quality_report: false_positive_terms is read from the top level of
\* the precision result, where the key 'false_positives' does not exist
create_quality_report(original_document_path, obfuscated_document_path, terms_to_obfuscate, engine_used, completeness, precision, visual_integrity) ==
    [original_document_path |-> original_document_path,
     obfuscated_document_path |-> obfuscated_document_path,
     terms_to_obfuscate |-> terms_to_obfuscate,
     engine_used |-> engine_used,
     metrics |-> [completeness_score |-> completeness.score,
                  precision_score |-> precision.score,
                  visual_integrity_score |-> visual_integrity.score,
                  overall_score |-> calculate_overall_score(completeness.score, precision.score,
                                                            visual_integrity.score),
                  non_obfuscated_terms |-> completeness.remaining_terms,
                  false_positive_terms |-> <<>>],
     timestamp |-> "{now}"]

\* ==================================================================
\* The orchestrator: PdfObfuscationApplication.obfuscate_document
\* ==================================================================
VARIABLES
    pc,                 \* position of the call: start, locate, redact, write,
                        \* post, except, done
    source_path, destination_path, terms, engine, evaluate_quality,  \* arguments
    files,              \* the storage: resolved path -> content
    dest_path, term_objects,        \* locals of obfuscate_document
    idx, all_occurrences, term_results, obfuscated_content, result,
                        \* locals of _execute_obfuscation
    exc,                \* the exception that reached `except Exception as e`
    calls,              \* the collaborator calls made so far, in order
    outcome,            \* what the caller received
    a_pc, a_engine, a_content, a_occurrences, a_fail, a_result,
                        \* a direct call of an adapter's obfuscate_occurrences:
                        \* its arguments, the step that fails, what it gave
    a_handles,          \* the document handles that call opened and closed
    f_made, f_term_results, f_result,
                        \* a direct call of a result factory
    x_pc, x_engine, x_content, x_term, x_fail, x_result, x_handles,
                        \* a direct call of an adapter's extract_text_occurrences
    q_pc,               \* position of an evaluate_quality call: start,
                        \* completeness, precision, visual, report, raise, done
    q_original_path, q_obfuscated_path, q_terms,    \* its arguments
    q_original_text, q_obfuscated_text,
                        \* what the text extractor reads in the two documents
    q_completeness, q_precision, q_visual,          \* the three metric results
    q_exc,              \* the exception that reached evaluate_quality's except
    q_outcome,          \* what the caller of evaluate_quality received
    s_pc,               \* a sequence of LocalStorageAdapter calls: unused, run
    s_fs,               \* the file system under the adapter: path -> entry
    s_last,             \* per path, the content of the last write_file that
                        \* returned, Absent if a delete_file returned since
    s_call              \* the last call: operation, path argument, exception

orch_vars == <<pc, source_path, destination_path, terms, engine, evaluate_quality,
               files, dest_path, term_objects, idx, all_occurrences, term_results,
               obfuscated_content, result, exc, calls, outcome>>
adapter_vars == <<a_pc, a_engine, a_content, a_occurrences, a_fail, a_result, a_handles>>
factory_vars == <<f_made, f_term_results, f_result>>
extract_vars == <<x_pc, x_engine, x_content, x_term, x_fail, x_result, x_handles>>
quality_vars == <<q_pc, q_original_path, q_obfuscated_path, q_terms, q_original_text,
                  q_obfuscated_text, q_completeness, q_precision, q_visual, q_exc, q_outcome>>
storage_vars == <<s_pc, s_fs, s_last, s_call>>
vars == <<orch_vars, adapter_vars, factory_vars, extract_vars, quality_vars, storage_vars>>

NoResult ==
    [success |-> FALSE, output_document |-> None, term_results |-> <<>>,
     total_terms_processed |-> 0, total_occurrences_obfuscated |-> 0,
     message |-> <<>>, error |-> <<>>]

Returned(r) == [kind |-> "returned", result |-> r, exc |-> NoExc]
Raised(e) == [kind |-> "raised", result |-> NoResult, exc |-> e]
Pending == [kind |-> "none", result |-> NoResult, exc |-> NoExc]

\* a collaborator call: what was called, with which term, occurrence list,
\* path and content, whether it returned (ok) or raised, and for a locate
\* the list it returned (occs), for a redact the bytes it returned (content)
Call(op, term, occs, path, content, ok) ==
    [op |-> op, term |-> term, occs |-> occs, path |-> path, content |-> content, ok |-> ok]

\* ------------------------------------------------------------- the inputs
TermInputs == { <<" ">>, <<"a">>, <<"A", " ">>, <<"z">> }
SourceInputs == { None, Str(<<>>), Str(<<"a.pdf">>), Str(<<".", "a.pdf">>),
                  Str(<<"missing.pdf">>) }
DestInputs == { None, Str(<<"a.pdf">>), Str(<<".", "a.pdf">>), Str(<<"out.pdf">>) }
EngineInputs == supported_engines \cup {"bogus"}

\* [Term(text=term.strip()) for term in terms if term.strip()]
StrippedTerms(ts) ==
    LET NonBlank(t) == Strip(t) # <<>>
        kept == SelectSeq(ts, NonBlank)
    IN  [i \in 1..Len(kept) |-> Strip(kept[i])]

AdapterIdle ==
    /\ a_pc = "unused" /\ a_engine = "none" /\ a_content = Absent
    /\ a_occurrences = <<>> /\ a_fail = "none" /\ a_result = Err(NoExc)
    /\ a_handles = Handles(0, 0)

FactoryIdle == f_made = "unused" /\ f_term_results = <<>> /\ f_result = NoResult

ExtractIdle ==
    /\ x_pc = "unused" /\ x_engine = "none" /\ x_content = Absent /\ x_term = <<>>
    /\ x_fail = "none" /\ x_result = ExtractOk(<<>>) /\ x_handles = Handles(0, 0)

NoCompleteness == evaluate_completeness(<<>>, <<>>, <<>>)
NoPrecision == evaluate_precision(<<>>, <<>>, <<>>)
NoVisual == [score |-> Frac(0, 1), page_count_match |-> FALSE]
NoReport == create_quality_report(None, None, <<>>, "none", NoCompleteness, NoPrecision, NoVisual)

ReportReturned(r) == [kind |-> "returned", report |-> r, exc |-> NoExc]
ReportRaised(e) == [kind |-> "raised", report |-> NoReport, exc |-> e]
ReportPending == [kind |-> "none", report |-> NoReport, exc |-> NoExc]

QualityIdle ==
    /\ q_pc = "unused" /\ q_original_path = None /\ q_obfuscated_path = None
    /\ q_terms = <<>> /\ q_original_text = <<>> /\ q_obfuscated_text = <<>>
    /\ q_completeness = NoCompleteness /\ q_precision = NoPrecision /\ q_visual = NoVisual
    /\ q_exc = NoExc /\ q_outcome = ReportPending

\* the files a sequence of storage calls can touch: a file under the base
\* directory, a subdirectory of it and two files in that subdirectory
StorageFiles == { <<"/", "base", "a.pdf">>, <<"/", "base", "d">>,
                  <<"/", "base", "d", "x.pdf">>, <<"/", "base", "d", "y.pdf">> }

NoCall == [op |-> "none", path |-> None, exc |-> NoExc]

StorageIdle ==
    /\ s_pc = "unused"
    /\ s_fs = [f \in StorageFiles |-> Absent]
    /\ s_last = [f \in StorageFiles |-> Absent]
    /\ s_call = NoCall

OrchestratorIdle ==
    /\ pc = "unused"
    /\ source_path = None /\ destination_path = None /\ terms = <<>>
    /\ engine = "none" /\ evaluate_quality = FALSE
    /\ files = InitFiles
    /\ dest_path = None /\ term_objects = <<>> /\ idx = 1
    /\ all_occurrences = <<>> /\ term_results = <<>>
    /\ obfuscated_content = Absent /\ result = NoResult
    /\ exc = NoExc /\ calls = <<>> /\ outcome = Pending

Init ==
    /\ pc = "start"
    /\ source_path \in SourceInputs
    /\ destination_path \in DestInputs
    /\ terms \in SeqsUpTo(TermInputs, MaxTerms)
    /\ engine \in EngineInputs
    /\ evaluate_quality \in BOOLEAN
    /\ files = InitFiles
    /\ dest_path = None
    /\ term_objects = <<>>
    /\ idx = 1
    /\ all_occurrences = <<>>
    /\ term_results = <<>>
    /\ obfuscated_content = Absent
    /\ result = NoResult
    /\ exc = NoExc
    /\ calls = <<>>
    /\ outcome = Pending
    /\ AdapterIdle
    /\ FactoryIdle
    /\ ExtractIdle
    /\ QualityIdle
    /\ StorageIdle

\* --------------------------------------------------- obfuscate_document
\* lines 64-96: the exception the validation raises, NoExc if it passes
DestPathFor(src, dst) == IF Truthy(dst) THEN dst ELSE get_default_output_path(src)

InputExc ==
    IF ~Truthy(source_path) \/ StripsEmpty(source_path)
    THEN Exc("ObfuscationError", <<"Source document path cannot be empty">>)
    ELSE IF terms = <<>>
    THEN Exc("ObfuscationError", <<"At least one term must be specified">>)
    ELSE IF ~validate_engine(engine)
    THEN Exc("ObfuscationError", <<"Engine ", engine, " not supported. Available engines: ",
                                   "pymupdf, pypdfium2, pdfplumber">>)
    ELSE IF ~file_exists(files, source_path)
    THEN Exc("ObfuscationError", <<"Source file ", "{source_path}", " does not exist">>)
    ELSE LET dp == DestPathFor(source_path, destination_path)
             tobjs == StrippedTerms(terms)
         IN  IF StripsEmpty(dp)
             THEN Exc("ValueError", <<"Destination path cannot be empty">>)
             ELSE IF tobjs = <<>>
             THEN Exc("ValueError", <<"Must specify at least one term to obfuscate">>)
             ELSE validate_obfuscation_request(
                      [source_document |-> source_path, destination_path |-> dp,
                       terms_to_obfuscate |-> tobjs, engine |-> engine])

\* except Exception in _execute_obfuscation (line 253)
WrapExecution(e) ==
    Exc("DocumentProcessingError",
        <<"Error during document obfuscation ", "{source_path}", ": ">> \o e.msg)

SourceContent == files[_resolve_path(source_path)]

\* lines 61-99: validation, request construction, processor creation
Validate ==
    /\ pc = "start"
    /\ IF InputExc # NoExc
       THEN /\ exc' = InputExc
            /\ pc' = "except"
            /\ UNCHANGED <<dest_path, term_objects, calls>>
       ELSE /\ dest_path' = DestPathFor(source_path, destination_path)
            /\ term_objects' = StrippedTerms(terms)
            /\ \E created \in BOOLEAN :
                 /\ calls' = Append(calls, Call("create_processor", <<>>, <<>>, None, Absent, created))
                 /\ pc' = IF created THEN "locate" ELSE "except"
                 /\ exc' = IF created THEN exc
                           ELSE Exc("ObfuscationError",
                                    <<"Failed to create processor for engine '", engine, "': ", "{cause}">>)
    /\ UNCHANGED <<source_path, destination_path, terms, engine, evaluate_quality, files,
                   idx, all_occurrences, term_results, obfuscated_content, result, outcome>>
    /\ UNCHANGED <<adapter_vars, factory_vars, extract_vars, quality_vars, storage_vars>>

\* the locate loop swallowing a failed extract_text_occurrences call and
\* going on with the next term
LocateIgnoringFailure ==
    /\ pc = "locate"
    /\ idx <= Len(term_objects)
    /\ \E fail \in {"none", "read"} :
         LET r == extract_text_occurrences(engine, SourceContent, term_objects[idx], fail)
         IN  /\ calls' = Append(calls, Call("locate", term_objects[idx], r.occs, source_path, Absent, r.ok))
             /\ all_occurrences' = IF r.ok THEN all_occurrences \o r.occs ELSE all_occurrences
             /\ idx' = idx + 1
             /\ UNCHANGED <<pc, exc>>
    /\ UNCHANGED <<source_path, destination_path, terms, engine, evaluate_quality, files,
                   dest_path, term_objects, term_results, obfuscated_content, result, outcome>>
    /\ UNCHANGED <<adapter_vars, factory_vars, extract_vars, quality_vars, storage_vars>>

\* lines 222-224: one extract_text_occurrences call for the next term
Locate ==
    /\ pc = "locate"
    /\ idx <= Len(term_objects)
    /\ \E fail \in {"none", "read"} :
         LET r == extract_text_occurrences(engine, SourceContent, term_objects[idx], fail)
         IN  /\ calls' = Append(calls, Call("locate", term_objects[idx], r.occs, source_path, Absent, r.ok))
             /\ all_occurrences' = IF r.ok THEN all_occurrences \o r.occs ELSE all_occurrences
             /\ idx' = IF r.ok THEN idx + 1 ELSE idx
             /\ pc' = IF r.ok THEN pc ELSE "except"
             /\ exc' = IF r.ok THEN exc ELSE WrapExecution(r.exc)
    /\ UNCHANGED <<source_path, destination_path, terms, engine, evaluate_quality, files,
                   dest_path, term_objects, term_results, obfuscated_content, result, outcome>>
    /\ UNCHANGED <<adapter_vars, factory_vars, extract_vars, quality_vars, storage_vars>>

\* lines 227-229 and 243-249: the term results, and the failure result of
\* the run when nothing was located
BuildTermResults ==
    /\ pc = "locate"
    /\ idx > Len(term_objects)
    /\ term_results' = create_term_results(term_objects, all_occurrences)
    /\ IF all_occurrences # <<>>
       THEN pc' = "redact" /\ result' = result
       ELSE /\ pc' = "post"
            /\ result' = create_error_result(<<"No terms found in the document">>,
                                             term_results', _get_engine_name(engine))
    /\ UNCHANGED <<source_path, destination_path, terms, engine, evaluate_quality, files,
                   dest_path, term_objects, idx, all_occurrences, obfuscated_content,
                   exc, calls, outcome>>
    /\ UNCHANGED <<adapter_vars, factory_vars, extract_vars, quality_vars, storage_vars>>

\* line 231: the single obfuscate_occurrences call
Redact ==
    /\ pc = "redact"
    /\ \E fail \in FailPoints :
         LET r == obfuscate_occurrences(engine, SourceContent, all_occurrences, fail)
         IN  /\ calls' = Append(calls, Call("redact", <<>>, all_occurrences, source_path, r.doc, r.ok))
             /\ obfuscated_content' = IF r.ok THEN r.doc ELSE obfuscated_content
             /\ pc' = IF r.ok THEN "write" ELSE "except"
             /\ exc' = IF r.ok THEN exc ELSE WrapExecution(r.exc)
    /\ UNCHANGED <<source_path, destination_path, terms, engine, evaluate_quality, files,
                   dest_path, term_objects, idx, all_occurrences, term_results, result, outcome>>
    /\ UNCHANGED <<adapter_vars, factory_vars, extract_vars, quality_vars, storage_vars>>

\* lines 234-242: file_storage.write_file(dest_path, obfuscated_content) and
\* the success result. A failing write raises FileStorageError either before
\* the file is opened (content untouched) or after open(..., 'wb') truncated it.
Write ==
    /\ pc = "write"
    /\ \E how \in {"ok", "fail_before_open", "fail_after_open"} :
         /\ calls' = Append(calls, Call("write", <<>>, <<>>, dest_path, obfuscated_content, how = "ok"))
         /\ files' = CASE how = "ok" ->
                            [files EXCEPT ![_resolve_path(dest_path)] = obfuscated_content]
                       [] how = "fail_after_open" ->
                            [files EXCEPT ![_resolve_path(dest_path)] = Truncated]
                       [] OTHER -> files
         /\ result' = IF how = "ok"
                      THEN create_success_result(dest_path, term_results, _get_engine_name(engine))
                      ELSE result
         /\ pc' = IF how = "ok" THEN "post" ELSE "except"
         /\ exc' = IF how = "ok" THEN exc
                   ELSE WrapExecution(Exc("FileStorageError",
                            <<"Error writing file ", "{file_path}", ": ", "{cause}">>))
    /\ UNCHANGED <<source_path, destination_path, terms, engine, evaluate_quality,
                   dest_path, term_objects, idx, all_occurrences, term_results,
                   obfuscated_content, outcome>>
    /\ UNCHANGED <<adapter_vars, factory_vars, extract_vars, quality_vars, storage_vars>>

\* lines 105-108: the optional quality evaluation of a successful run;
\* evaluate_quality raises ObfuscationError when the evaluation fails
EvaluateQuality ==
    /\ pc = "post"
    /\ evaluate_quality /\ result.success
    /\ \E evaluated \in BOOLEAN :
         /\ calls' = Append(calls, Call("evaluate_quality", <<>>, <<>>, dest_path, Absent, evaluated))
         /\ outcome' = IF evaluated THEN Returned(result) ELSE outcome
         /\ pc' = IF evaluated THEN "done" ELSE "except"
         /\ exc' = IF evaluated THEN exc
                   ELSE Exc("ObfuscationError", <<"Error during quality evaluation: ", "{cause}">>)
    /\ UNCHANGED <<source_path, destination_path, terms, engine, evaluate_quality, files,
                   dest_path, term_objects, idx, all_occurrences, term_results,
                   obfuscated_content, result>>
    /\ UNCHANGED <<adapter_vars, factory_vars, extract_vars, quality_vars, storage_vars>>

\* line 110: return result
Return ==
    /\ pc = "post"
    /\ ~(evaluate_quality /\ result.success)
    /\ outcome' = Returned(result)
    /\ pc' = "done"
    /\ UNCHANGED <<source_path, destination_path, terms, engine, evaluate_quality, files,
                   dest_path, term_objects, idx, all_occurrences, term_results,
                   obfuscated_content, result, exc, calls>>
    /\ UNCHANGED <<adapter_vars, factory_vars, extract_vars, quality_vars, storage_vars>>

\* lines 112-124: the except block. `destination_path or
\* get_default_output_path(source_path)` builds Path(source_path), which
\* raises TypeError for None; nothing catches an exception raised here.
HandleError ==
    /\ pc = "except"
    /\ IF ~Truthy(destination_path) /\ source_path.tag = "None"
       THEN outcome' = Raised(Exc("TypeError", <<"expected str, bytes or os.PathLike object, not NoneType">>))
       ELSE outcome' = Returned(handle_obfuscation_error(exc, engine))
    /\ pc' = "done"
    /\ UNCHANGED <<source_path, destination_path, terms, engine, evaluate_quality, files,
                   dest_path, term_objects, idx, all_occurrences, term_results,
                   obfuscated_content, result, exc, calls>>
    /\ UNCHANGED <<adapter_vars, factory_vars, extract_vars, quality_vars, storage_vars>>

Next ==
    \/ Validate
    \/ Locate
    \/ BuildTermResults
    \/ Redact
    \/ Write
    \/ EvaluateQuality
    \/ Return
    \/ HandleError

Spec == Init /\ [][Next]_vars

\* ==================================================================
\* An adapter's obfuscate_occurrences called directly with any document
\* and any occurrence list
\* ==================================================================
AdapterDocs ==
    { Pdf([n \in 1..k |-> VectorPage(<<Word(<<"a">>, B1), Word(<<"b">>, B2)>>, n)]) :
        k \in 1..MaxPages }
        \cup { Pdf(<< OffsetPage(<<Word(<<"a">>, B1), Word(<<"b">>, B2)>>, 1,
                                 MediaBox(-20, -60, 180, -10)) >>) }

OccurrenceInputs ==
    { TermOccurrence(<<"a">>, b, n) : b \in {B1, B2}, n \in 1..(MaxPages + 1) }

InitAdapter ==
    /\ OrchestratorIdle
    /\ FactoryIdle
    /\ ExtractIdle
    /\ QualityIdle
    /\ StorageIdle
    /\ a_pc = "call"
    /\ a_engine \in supported_engines
    /\ a_content \in AdapterDocs
    /\ a_occurrences \in SeqsUpTo(OccurrenceInputs, MaxOccs)
    /\ a_fail = "none"
    /\ a_result = Err(NoExc)
    /\ a_handles = Handles(0, 0)

\* PdfProcessorPort.obfuscate_occurrences: returns the bytes or raises
ObfuscateOccurrences ==
    /\ a_pc = "call"
    /\ \E fail \in FailPoints :
         /\ a_fail' = fail
         /\ a_result' = obfuscate_occurrences(a_engine, a_content, a_occurrences, fail)
         /\ a_handles' = obfuscate_handles(a_engine, a_content, a_occurrences, fail)
         /\ a_pc' = IF a_result'.ok THEN "returned" ELSE "raised"
    /\ UNCHANGED <<a_engine, a_content, a_occurrences>>
    /\ UNCHANGED <<orch_vars, factory_vars, extract_vars, quality_vars, storage_vars>>

NextAdapter == ObfuscateOccurrences

SpecAdapter == InitAdapter /\ [][NextAdapter]_vars

\* ==================================================================
\* The two result factories of DocumentObfuscationService called with any
\* list of term results
\* ==================================================================
OccurrenceListInputs ==
    SeqsUpTo({TermOccurrence(<<"a">>, B1, 1)}, MaxOccs)

TermResultInputs ==
    { [term |-> <<"a">>, status |-> st, occurrences |-> occs,
       message |-> [fmt |-> "Term not found", n |-> 0]] :
        st \in {"success", "not_found", "error"}, occs \in OccurrenceListInputs }

InitFactory ==
    /\ OrchestratorIdle
    /\ AdapterIdle
    /\ ExtractIdle
    /\ QualityIdle
    /\ StorageIdle
    /\ f_made = "none"
    /\ f_term_results \in SeqsUpTo(TermResultInputs, MaxTerms)
    /\ f_result = NoResult

CreateSuccessResult ==
    /\ f_made = "none"
    /\ f_made' = "success"
    /\ f_result' = create_success_result(Str(<<"out.pdf">>), f_term_results, "pymupdf")
    /\ UNCHANGED f_term_results
    /\ UNCHANGED <<orch_vars, adapter_vars, extract_vars, quality_vars, storage_vars>>

CreateErrorResult ==
    /\ f_made = "none"
    /\ f_made' = "error"
    /\ f_result' = create_error_result(<<"{error}">>, f_term_results, "pymupdf")
    /\ UNCHANGED f_term_results
    /\ UNCHANGED <<orch_vars, adapter_vars, extract_vars, quality_vars, storage_vars>>

NextFactory ==
    \/ CreateSuccessResult
    \/ CreateErrorResult

SpecFactory == InitFactory /\ [][NextFactory]_vars

\* ==================================================================
\* An adapter's extract_text_occurrences called directly with any document
\* and any term
\* ==================================================================
B3 == Position(50, 10, 60, 20)
B4 == Position(120, 10, 130, 20)

\* the page layouts of the documents searched: one line of two words; one
\* line with a repeated word; a word containing the term, a case variant and
\* a second column; a page whose media box does not start at the origin; two
\* columns of two lines whose words are not listed in reading order
PageLayouts == {"line", "repeated", "mixed", "offset", "columns"}

LayoutPage(layout, n) ==
    CASE layout = "line" ->
             VectorPage(<<Word(<<"a">>, B1), Word(<<"b">>, B2)>>, n)
      [] layout = "repeated" ->
             VectorPage(<<Word(<<"a">>, B1), Word(<<"a">>, B2), Word(<<"b">>, B3)>>, n)
      [] layout = "mixed" ->
             VectorPage(<<Word(<<"a", "b">>, B1), Word(<<"A">>, B2), Word(<<"a">>, B4)>>, n)
      [] layout = "columns" ->
             VectorPage(<<Word(<<"b">>, Position(15, 30, 25, 40)), Word(<<"a">>, B1),
                          Word(<<"a">>, B4), Word(<<"b">>, Position(118, 30, 128, 40))>>, n)
      [] OTHER ->
             OffsetPage(<<Word(<<"a">>, B1)>>, n, MediaBox(-20, -60, 180, -10))

ExtractDocs ==
    { Pdf([n \in 1..k |-> LayoutPage(layouts[n], n)]) :
        k \in 1..MaxPages, layouts \in [1..MaxPages -> PageLayouts] }

ExtractTerms == { <<"a">>, <<"A">>, <<"a", " ", "b">>, <<"a", " ", "a", " ", "a">> }

InitExtract ==
    /\ OrchestratorIdle
    /\ AdapterIdle
    /\ FactoryIdle
    /\ QualityIdle
    /\ StorageIdle
    /\ x_pc = "call"
    /\ x_engine \in supported_engines
    /\ x_content \in ExtractDocs
    /\ x_term \in ExtractTerms
    /\ x_fail = "none"
    /\ x_result = ExtractOk(<<>>)
    /\ x_handles = Handles(0, 0)

\* PdfProcessorPort.extract_text_occurrences: returns the list or raises
ExtractTextOccurrences ==
    /\ x_pc = "call"
    /\ \E fail \in ExtractFailPoints :
         /\ x_fail' = fail
         /\ x_result' = extract_text_occurrences(x_engine, x_content, x_term, fail)
         /\ x_handles' = extract_handles(x_engine, x_content, fail)
         /\ x_pc' = IF x_result'.ok THEN "returned" ELSE "raised"
    /\ UNCHANGED <<x_engine, x_content, x_term>>
    /\ UNCHANGED <<orch_vars, adapter_vars, factory_vars, quality_vars, storage_vars>>

NextExtract == ExtractTextOccurrences

SpecExtract == InitExtract /\ [][NextExtract]_vars

\* ==================================================================
\* PdfObfuscationApplication.evaluate_quality called with any paths, any
\* term list and any pair of extracted texts
\* ==================================================================
\* the words the text extractor reads
OcrWords == { <<"a_grave", "b">>, <<"A", "b", "c", ".">>, <<"a">>, <<"a", "b", "c", "d">> }

\* the texts of up to MaxWords words, and one text of three words
Texts ==
    { Join(ws) : ws \in SeqsUpTo(OcrWords, MaxWords) }
        \cup { Join(<< <<"a">>, <<"a_grave", "b">>, <<"a", "b", "c", "d">> >>) }

QualityTermLists ==
    { <<>>, << <<"a", "b", "c">> >>, << <<"a", "b", "c", " ", "d">> >>,
      << <<"a", "b">>, <<"a", "b", "c", "d">> >> }

QualityOriginalPaths == { None, Str(<<>>), Str(<<"a.pdf">>), Str(<<"missing.pdf">>) }
QualityObfuscatedPaths == { None, Str(<<"out.pdf">>), Str(<<"a.pdf">>), Str(<<"missing.pdf">>) }

\* _execute_quality_evaluation, lines 268-279: the exception the input checks
\* raise, NoExc if they pass
QualityInputExc(original_document_path, obfuscated_document_path, terms_to_obfuscate) ==
    IF ~Truthy(original_document_path) \/ ~Truthy(obfuscated_document_path)
    THEN Exc("DocumentProcessingError",
             <<"Both original and obfuscated document paths must be provided">>)
    ELSE IF terms_to_obfuscate = <<>>
    THEN Exc("DocumentProcessingError",
             <<"At least one term must be specified for evaluation">>)
    ELSE IF ~file_exists(InitFiles, original_document_path)
    THEN Exc("DocumentProcessingError",
             <<"Original document ", "{original_document_path}", " does not exist">>)
    ELSE IF ~file_exists(InitFiles, obfuscated_document_path)
    THEN Exc("DocumentProcessingError",
             <<"Obfuscated document ", "{obfuscated_document_path}", " does not exist">>)
    ELSE NoExc

\* except Exception in _execute_quality_evaluation (line 323)
WrapQualityEvaluation(e) ==
    Exc("DocumentProcessingError", <<"Error during quality evaluation: ">> \o e.msg)

InitQuality ==
    /\ OrchestratorIdle
    /\ AdapterIdle
    /\ FactoryIdle
    /\ ExtractIdle
    /\ StorageIdle
    /\ q_pc = "start"
    /\ q_original_path \in QualityOriginalPaths
    /\ q_obfuscated_path \in QualityObfuscatedPaths
    /\ q_terms \in QualityTermLists
    /\ q_original_text \in Texts
    /\ q_obfuscated_text \in Texts
    /\ QualityInputExc(q_original_path, q_obfuscated_path, q_terms) # NoExc
          => (q_original_text = <<>> /\ q_obfuscated_text = <<>>)
    /\ q_completeness = NoCompleteness
    /\ q_precision = NoPrecision
    /\ q_visual = NoVisual
    /\ q_exc = NoExc
    /\ q_outcome = ReportPending

\* evaluate_quality lines 149-150 and _execute_quality_evaluation lines
\* 268-283: the evaluator is obtained and the inputs are checked
QualityValidate ==
    /\ q_pc = "start"
    /\ \E created \in BOOLEAN :
         LET e == QualityInputExc(q_original_path, q_obfuscated_path, q_terms)
         IN  /\ q_exc' = IF ~created THEN Exc("Exception", <<"{cause}">>)
                         ELSE IF e # NoExc THEN WrapQualityEvaluation(e)
                         ELSE q_exc
             /\ q_pc' = IF created /\ e = NoExc THEN "completeness" ELSE "raise"
    /\ UNCHANGED <<q_original_path, q_obfuscated_path, q_terms, q_original_text,
                   q_obfuscated_text, q_completeness, q_precision, q_visual, q_outcome>>
    /\ UNCHANGED <<orch_vars, adapter_vars, factory_vars, extract_vars, storage_vars>>

\* lines 286-288: evaluate_completeness; a failing text extraction raises
EvaluateCompleteness ==
    /\ q_pc = "completeness"
    /\ \E extracted \in BOOLEAN :
         /\ q_completeness' = IF extracted
                              THEN evaluate_completeness(q_original_text, q_obfuscated_text, q_terms)
                              ELSE q_completeness
         /\ q_pc' = IF extracted THEN "precision" ELSE "raise"
         /\ q_exc' = IF extracted THEN q_exc
                     ELSE WrapQualityEvaluation(Exc("DocumentProcessingError",
                              <<"Error evaluating completeness: ", "{cause}">>))
    /\ UNCHANGED <<q_original_path, q_obfuscated_path, q_terms, q_original_text,
                   q_obfuscated_text, q_precision, q_visual, q_outcome>>
    /\ UNCHANGED <<orch_vars, adapter_vars, factory_vars, extract_vars, storage_vars>>

\* lines 291-293: evaluate_precision; a failing text extraction raises
EvaluatePrecision ==
    /\ q_pc = "precision"
    /\ \E extracted \in BOOLEAN :
         /\ q_precision' = IF extracted
                           THEN evaluate_precision(q_original_text, q_obfuscated_text, q_terms)
                           ELSE q_precision
         /\ q_pc' = IF extracted THEN "visual" ELSE "raise"
         /\ q_exc' = IF extracted THEN q_exc
                     ELSE WrapQualityEvaluation(Exc("DocumentProcessingError",
                              <<"Error evaluating precision: ", "{cause}">>))
    /\ UNCHANGED <<q_original_path, q_obfuscated_path, q_terms, q_original_text,
                   q_obfuscated_text, q_completeness, q_visual, q_outcome>>
    /\ UNCHANGED <<orch_vars, adapter_vars, factory_vars, extract_vars, storage_vars>>

\* lines 296-298: evaluate_visual_integrity
EvaluateVisualIntegrity ==
    /\ q_pc = "visual"
    /\ q_visual' = evaluate_visual_integrity
    /\ q_pc' = "report"
    /\ UNCHANGED <<q_original_path, q_obfuscated_path, q_terms, q_original_text,
                   q_obfuscated_text, q_completeness, q_precision, q_exc, q_outcome>>
    /\ UNCHANGED <<orch_vars, adapter_vars, factory_vars, extract_vars, storage_vars>>

\* lines 301-321: the report is built and returned
CreateQualityReport ==
    /\ q_pc = "report"
    /\ q_outcome' = ReportReturned(create_quality_report(q_original_path, q_obfuscated_path,
                        q_terms, "unknown", q_completeness, q_precision, q_visual))
    /\ q_pc' = "done"
    /\ UNCHANGED <<q_original_path, q_obfuscated_path, q_terms, q_original_text,
                   q_obfuscated_text, q_completeness, q_precision, q_visual, q_exc>>
    /\ UNCHANGED <<orch_vars, adapter_vars, factory_vars, extract_vars, storage_vars>>

\* evaluate_quality lines 161-162: any exception is raised again as
\* ObfuscationError
RaiseQualityError ==
    /\ q_pc = "raise"
    /\ q_outcome' = ReportRaised(Exc("ObfuscationError",
                        <<"Error during quality evaluation: ">> \o q_exc.msg))
    /\ q_pc' = "done"
    /\ UNCHANGED <<q_original_path, q_obfuscated_path, q_terms, q_original_text,
                   q_obfuscated_text, q_completeness, q_precision, q_visual, q_exc>>
    /\ UNCHANGED <<orch_vars, adapter_vars, factory_vars, extract_vars, storage_vars>>

NextQuality ==
    \/ QualityValidate
    \/ EvaluateCompleteness
    \/ EvaluatePrecision
    \/ EvaluateVisualIntegrity
    \/ CreateQualityReport
    \/ RaiseQualityError

SpecQuality == InitQuality /\ [][NextQuality]_vars

\* ==================================================================
\* fastapi_adapter: POST /obfuscate
\* ==================================================================
\* what the HTTP client receives: the status code, the "detail" of an error
\* response and the ObfuscationResponse body of a 200
HttpResponse(status_code, detail, body) ==
    [status_code |-> status_code, detail |-> detail, body |-> body]

\* fastapi_adapter.obfuscate_document: HTTPException(500) for a source path
\* that does not exist, else the result of pdf_app.obfuscate_document
\* converted by _convert_result_to_response and sent with status 200; an
\* exception leaving the handler is answered by the server with status 500
post_obfuscate(path_exists, call_outcome) ==
    IF ~path_exists
    THEN HttpResponse(500, <<"Source file ", "{source_path}", " not found">>, NoResult)
    ELSE IF call_outcome.kind = "raised"
    THEN HttpResponse(500, <<"Internal Server Error">>, NoResult)
    ELSE HttpResponse(200, <<>>, call_outcome.result)

\* ==================================================================
\* LocalStorageAdapter: any sequence of write_file and delete_file calls
\* on a file system whose reads and writes themselves do not fail
\* ==================================================================
\* the tracked proper ancestors of a resolved path
Ancestors(fs, f) == { g \in DOMAIN fs : Len(g) < Len(f) /\ SubSeq(f, 1, Len(g)) = g }

\* what a storage call gives: the file system after it, the bytes it
\* returned (read_file) and the exception it raised, NoExc if it returned
StorageResult(fs, content, raised) == [fs |-> fs, content |-> content, exc |-> raised]

\* LocalStorageAdapter.read_file
read_file(fs, p) ==
    LET f == _resolve_path(p)
    IN  IF f \notin DOMAIN fs \/ fs[f].kind = "absent"
        THEN StorageResult(fs, Absent,
                 Exc("FileStorageError", <<"Le fichier ", "{file_path}", " n'existe pas">>))
        ELSE IF fs[f].kind = "dir"
        THEN StorageResult(fs, Absent,
                 Exc("FileStorageError", <<"{file_path}", " n'est pas un fichier">>))
        ELSE StorageResult(fs, fs[f], NoExc)

\* LocalStorageAdapter.write_file: parent.mkdir(parents=True, exist_ok=True)
\* fails on an ancestor that is a file, open(file_path, 'wb') fails on a
\* directory; every failure is raised as FileStorageError
write_file(fs, p, content) ==
    LET f == _resolve_path(p)
        made == [g \in DOMAIN fs |-> IF g \in Ancestors(fs, f) THEN Dir ELSE fs[g]]
        failed == Exc("FileStorageError", <<"Error writing file ", "{file_path}", ": ", "{cause}">>)
    IN  IF \E g \in Ancestors(fs, f) : fs[g].kind \notin {"absent", "dir"}
        THEN StorageResult(fs, Absent, failed)
        ELSE IF fs[f].kind = "dir"
        THEN StorageResult(made, Absent, failed)
        ELSE StorageResult([made EXCEPT ![f] = content], Absent, NoExc)

\* delete_file that returns without unlinking
delete_file_without_unlink(fs, p) == StorageResult(fs, Absent, NoExc)

\* LocalStorageAdapter.delete_file: unlink() of an existing path, which fails
\* on a directory; nothing for a path that does not exist
delete_file(fs, p) ==
    LET f == _resolve_path(p)
    IN  IF fs[f].kind = "absent"
        THEN StorageResult(fs, Absent, NoExc)
        ELSE IF fs[f].kind = "dir"
        THEN StorageResult(fs, Absent,
                 Exc("FileStorageError",
                     <<"Erreur lors de la suppression du fichier ", "{file_path}", ": ", "{cause}">>))
        ELSE StorageResult([fs EXCEPT ![f] = Absent], Absent, NoExc)

\* the path arguments ("./a.pdf" and "a.pdf" name the same file, an absolute
\* path is taken as it is) and the contents written
StoragePaths == { Str(<<"a.pdf">>), Str(<<".", "a.pdf">>), Str(<<"d">>),
                  Str(<<"d", "x.pdf">>), Str(<<"/", "base", "d", "y.pdf">>) }
StorageContents == { SrcDoc, OldDoc }

StorageCall(op, path, raised) == [op |-> op, path |-> path, exc |-> raised]

InitStorage ==
    /\ OrchestratorIdle
    /\ AdapterIdle
    /\ FactoryIdle
    /\ ExtractIdle
    /\ QualityIdle
    /\ s_pc = "run"
    /\ s_fs = [f \in StorageFiles |-> Absent]
    /\ s_last = [f \in StorageFiles |-> Absent]
    /\ s_call = NoCall

WriteFile ==
    /\ s_pc = "run"
    /\ \E p \in StoragePaths, content \in StorageContents :
         LET r == write_file(s_fs, p, content)
         IN  /\ s_fs' = r.fs
             /\ s_last' = IF r.exc = NoExc
                          THEN [s_last EXCEPT ![_resolve_path(p)] = content]
                          ELSE s_last
             /\ s_call' = StorageCall("write_file", p, r.exc)
    /\ UNCHANGED s_pc
    /\ UNCHANGED <<orch_vars, adapter_vars, factory_vars, extract_vars, quality_vars>>

DeleteFile ==
    /\ s_pc = "run"
    /\ \E p \in StoragePaths :
         LET r == delete_file(s_fs, p)
         IN  /\ s_fs' = r.fs
             /\ s_last' = IF r.exc = NoExc
                          THEN [s_last EXCEPT ![_resolve_path(p)] = Absent]
                          ELSE s_last
             /\ s_call' = StorageCall("delete_file", p, r.exc)
    /\ UNCHANGED s_pc
    /\ UNCHANGED <<orch_vars, adapter_vars, factory_vars, extract_vars, quality_vars>>

NextStorage ==
    \/ WriteFile
    \/ DeleteFile

SpecStorage == InitStorage /\ [][NextStorage]_vars

\* ==================================================================
\* The rectangles the raster adapters draw on the page images
\* ==================================================================
\* int(): the quotient num / den cut towards zero; den > 0
TruncDiv(num, den) == IF num >= 0 THEN num \div den ELSE -((-num) \div den)

Abs(v) == IF v < 0 THEN -v ELSE v

\* a rectangle in pixels and the size of the image it is drawn on
Rectangle(x0, y0, x1, y1, img_w, img_h) ==
    [x0 |-> x0, y0 |-> y0, x1 |-> x1, y1 |-> y1, img_w |-> img_w, img_h |-> img_h]

\* PyPdfium2Adapter.obfuscate_occurrences, lines 136-179: the page rendered
\* at scale 2.0, the box moved by the media-box origin, scaled, its y axis
\* inverted, ordered by min/max and extended up and down by half of
\* abs(bbox_y0) * scale_y
PyPdfium2Rectangle(position, page) ==
    LET img_w == 2 * PageWidth(page)
        img_h == 2 * PageHeight(page)
        bbox_x0 == page.mediabox.x0
        bbox_y0 == page.mediabox.y0
        x0 == 2 * (position.x0 - bbox_x0)
        y0 == img_h - 2 * (position.y1 - bbox_y0)
        x1 == 2 * (position.x1 - bbox_x0)
        y1 == img_h - 2 * (position.y0 - bbox_y0)
        height_adjustment == 2 * Abs(bbox_y0)
    IN  Rectangle(Min2(x0, x1), Min2(y0, y1) - height_adjustment \div 2,
                  Max2(x0, x1), Max2(y0, y1) + height_adjustment \div 2, img_w, img_h)

\* PdfPlumberAdapter._apply_obfuscation_to_image: the page converted at 200
\* dpi (72 points per inch, sizes rounded up), the box moved by the bbox
\* origin and scaled with int(), ordered by min/max, and its upper edge
\* raised by int(abs(bbox_y0) * scale_y) but not above 0
_apply_obfuscation_to_image(position, page) ==
    LET img_width == (200 * PageWidth(page) + 71) \div 72
        img_height == (200 * PageHeight(page) + 71) \div 72
        bbox_x0 == page.mediabox.x0
        bbox_y0 == page.mediabox.y0
        x0 == TruncDiv((position.x0 - bbox_x0) * img_width, PageWidth(page))
        x1 == TruncDiv((position.x1 - bbox_x0) * img_width, PageWidth(page))
        y0_img == TruncDiv((position.y0 - bbox_y0) * img_height, PageHeight(page))
        y1_img == TruncDiv((position.y1 - bbox_y0) * img_height, PageHeight(page))
        bbox_offset_pixels == TruncDiv(Abs(bbox_y0) * img_height, PageHeight(page))
    IN  Rectangle(Min2(x0, x1), Max2(0, Min2(y0_img, y1_img) - bbox_offset_pixels),
                  Max2(x0, x1), Max2(y0_img, y1_img), img_width, img_height)

\* the rectangles a raster adapter draws for an occurrence list: one per
\* occurrence whose page is in the document
DrawnRectangles(eng, content, occurrences) ==
    LET OnDocument(occ) == occ.page_number <= Len(content.pages)
        drawn == SelectSeq(occurrences, OnDocument)
    IN  [i \in 1..Len(drawn) |->
           IF eng = "pypdfium2"
           THEN PyPdfium2Rectangle(drawn[i].position, content.pages[drawn[i].page_number])
           ELSE _apply_obfuscation_to_image(drawn[i].position,
                                            content.pages[drawn[i].page_number])]

\* ==================================================================
\* Properties
\* ==================================================================
Done == pc = "done"
ReturnedResult == outcome.result
NoTermsFound == <<"No terms found in the document">>

\* the calls of locate, redact and write, in the order they were made
IsEngineOrWrite(c) == c.op \in {"locate", "redact", "write"}
EngineAndWriteCalls == SelectSeq(calls, IsEngineOrWrite)

\* sum of occurrences_count over the term results whose status is found
FoundSum(trs) ==
    SumSeq([i \in 1..Len(trs) |->
              IF trs[i].status = "success" THEN Len(trs[i].occurrences) ELSE 0])

HasBlankTerm == \E i \in 1..Len(terms) : Strip(terms[i]) = <<>>

\* C1: obfuscate_document always returns an ObfuscationResult and never
\* raises; whenever an exception reached its except block the caller gets a
\* failure result carrying the error text.
C1_NeverRaises ==
    Done =>
        /\ outcome.kind = "returned"
        /\ exc # NoExc =>
              /\ ~ReturnedResult.success
              /\ ReturnedResult.error = ErrorPrefix(exc.type) \o exc.msg

\* C2: when no collaborator raises, the result is a success exactly when the
\* accumulated occurrence list is non-empty; a success carries found /
\* not_found per term; with zero occurrences the result is a failure with no
\* output document and the text "No terms found in the document"; a result
\* built for an exception never carries that text nor any term result.
C2_SuccessIffOccurrences ==
    (Done /\ outcome.kind = "returned") =>
        IF exc = NoExc
        THEN /\ ReturnedResult.success <=> (all_occurrences # <<>>)
             /\ \A i \in 1..Len(ReturnedResult.term_results) :
                   LET tr == ReturnedResult.term_results[i]
                   IN  /\ tr.status \in {"success", "not_found"}
                       /\ tr.status = "success" <=>
                            (\E j \in 1..Len(all_occurrences) :
                                Lower(all_occurrences[j].term) = Lower(tr.term))
             /\ all_occurrences = <<>> =>
                   /\ ~ReturnedResult.success
                   /\ ReturnedResult.output_document = None
                   /\ ReturnedResult.error = NoTermsFound
                   /\ ReturnedResult.term_results # <<>>
        ELSE /\ ~ReturnedResult.success
             /\ ReturnedResult.error # NoTermsFound
             /\ ReturnedResult.term_results = <<>>

\* a successful run in which one term was found and another was not
C2_Witness ==
    /\ Done /\ exc = NoExc /\ ReturnedResult.success
    /\ \E i, j \in 1..Len(ReturnedResult.term_results) :
          /\ ReturnedResult.term_results[i].status = "success"
          /\ ReturnedResult.term_results[j].status = "not_found"

C4_SourceNeverMutated ==
    (source_path.tag = "str" /\ _resolve_path(source_path) \in FileIds) =>
        files[_resolve_path(source_path)] = InitFiles[_resolve_path(source_path)]

\* C5: a destination path equal to the source path ends in a validation
\* error before any engine is invoked: no adapter is created and no locate,
\* redact or write call is made.
C5_SamePathRejected ==
    (Truthy(destination_path) /\ destination_path = source_path) =>
        /\ calls = <<>>
        /\ pc \in {"start", "except", "done"}
        /\ files = InitFiles
        /\ Done =>
              /\ outcome.kind = "returned"
              /\ ~ReturnedResult.success
              /\ ReturnedResult.error # <<>>
              /\ exc.type \in {"ObfuscationError", "ValueError"}

\* the run rejected by the source/destination rule itself
C5_Witness ==
    /\ Done
    /\ destination_path = source_path
    /\ ReturnedResult.error = <<"Source and destination paths cannot be the same">>

\* C6: a term list containing an empty or whitespace-only term makes the call
\* return a validation failure without any locate, redact or write.
C6_BlankTermRejected ==
    HasBlankTerm =>
        /\ EngineAndWriteCalls = <<>>
        /\ Done => (outcome.kind = "returned" => ~ReturnedResult.success)

\* the occurrence lists the locate calls of the log returned, concatenated
LocatedSoFar(log) ==
    FlattenSeq([i \in 1..Len(log) |-> IF log[i].op = "locate" THEN log[i].occs ELSE <<>>])

C8_OneResultPerTerm ==
    (Done /\ outcome.kind = "returned" /\ exc = NoExc) =>
        /\ Len(ReturnedResult.term_results) = Len(terms)
        /\ ReturnedResult.total_terms_processed = Len(terms)
        /\ \A i \in 1..Len(ReturnedResult.term_results) :
              LET tr == ReturnedResult.term_results[i]
                  Same(occ) == Lower(occ.term) = Lower(tr.term)
              IN  /\ i <= Len(terms) => tr.term = Strip(terms[i])
                  /\ tr.occurrences = SelectSeq(all_occurrences, Same)
                  /\ tr.status = IF tr.occurrences # <<>> THEN "success" ELSE "not_found"

\* C9: whatever pymupdf's obfuscate_occurrences returns went through the
\* flatten step after the rectangles were added: every output page is a
\* raster image of the covered input page with no text layer and no
\* removable annotation; a failing flatten raises DocumentProcessingError.
C9_PyMuPdfFlattened ==
    a_engine = "pymupdf" =>
        /\ a_pc = "returned" =>
              /\ a_result.ok /\ a_fail = "none"
              /\ Len(a_result.doc.pages) = Len(a_content.pages)
              /\ \A n \in 1..Len(a_result.doc.pages) :
                    LET page == a_result.doc.pages[n]
                    IN  /\ page.layer = "image"
                        /\ page.words = <<>>
                        /\ page.annots = <<>>
                        /\ page.src = n
                        /\ page.covers = Positions(OccsOnPage(a_occurrences, n))
        /\ (a_pc # "call" /\ a_fail = "serialize") =>
              /\ a_pc = "raised"
              /\ a_result.exc.type = "DocumentProcessingError"

\* pymupdf returned a document for occurrences on its pages
C9_Witness ==
    /\ a_engine = "pymupdf" /\ a_pc = "returned"
    /\ Len(a_occurrences) = MaxOccs
    /\ a_result.doc.pages[1].covers # <<>>

\* C10: for every adapter and occurrence list, obfuscate_occurrences either
\* paints one rectangle per occurrence on the page the occurrence names or
\* raises DocumentProcessingError; no occurrence is left unpainted in a
\* returned document.
C10_EveryOccurrencePainted ==
    /\ a_pc = "returned" =>
          /\ \A i \in 1..Len(a_occurrences) :
                a_occurrences[i].page_number <= Len(a_result.doc.pages)
          /\ \A n \in 1..Len(a_result.doc.pages) :
                a_result.doc.pages[n].covers = Positions(OccsOnPage(a_occurrences, n))
    /\ a_pc = "raised" => a_result.exc.type = "DocumentProcessingError"

\* C11: for every adapter, document and occurrence list (the empty list and
\* lists touching only some pages included), the document obfuscate_occurrences
\* returns has as many pages as the input, in the input's order, pages
\* without an occurrence included.
C11_PageCountPreserved ==
    a_pc = "returned" =>
        /\ a_result.doc.kind = "pdf"
        /\ Len(a_result.doc.pages) = Len(a_content.pages)
        /\ \A n \in 1..Len(a_result.doc.pages) :
              a_result.doc.pages[n].src = a_content.pages[n].src

\* a raster adapter returned a two-page document for occurrences that are
\* all on page 1
C11_Witness ==
    /\ a_pc = "returned" /\ a_engine = "pdfplumber"
    /\ Len(a_content.pages) = 2
    /\ a_occurrences # <<>>
    /\ \A i \in 1..Len(a_occurrences) : a_occurrences[i].page_number = 1
    /\ a_result.doc.pages[2].covers = <<>>

\* C12: for every adapter, document and term, the list extract_text_occurrences
\* returns holds no two occurrences with the same page number and the same
\* four coordinates.
C12_NoDuplicateBoxes ==
    x_pc = "returned" =>
        \A i, j \in 1..Len(x_result.occs) :
            (i # j /\ x_result.occs[i].page_number = x_result.occs[j].page_number)
                => x_result.occs[i].position # x_result.occs[j].position

\* C13: every occurrence an adapter returns has 0 <= x0 <= x1 and
\* 0 <= y0 <= y1 within the page's width and height, measured from the page's
\* top-left corner whatever the engine's own convention and the page's media
\* box: its top and bottom edges are the top and bottom edges of words of the
\* page and it lies between the left and right edges of words of the page.
C13_PositionsNormalized ==
    x_pc = "returned" =>
        \A i \in 1..Len(x_result.occs) :
            LET pos == x_result.occs[i].position
                page == x_content.pages[x_result.occs[i].page_number]
                W == 1..Len(page.words)
            IN  /\ 0 <= pos.x0 /\ pos.x0 <= pos.x1 /\ pos.x1 <= PageWidth(page)
                /\ 0 <= pos.y0 /\ pos.y0 <= pos.y1 /\ pos.y1 <= PageHeight(page)
                /\ \E w \in W : pos.y0 = page.words[w].box.y0
                /\ \E w \in W : pos.y1 = page.words[w].box.y1
                /\ \E w \in W : page.words[w].box.x0 <= pos.x0
                /\ \E w \in W : pos.x1 <= page.words[w].box.x1

\* C14: on every exit of extract_text_occurrences and obfuscate_occurrences
\* of the adapters that open a native document handle (pymupdf, pypdfium2),
\* a normal return or a raised DocumentProcessingError, every handle the call
\* opened has been closed.
C14_HandlesClosed ==
    /\ (x_pc \in {"returned", "raised"} /\ x_engine \in {"pymupdf", "pypdfium2"}) =>
          x_handles.closed = x_handles.opened
    /\ (a_pc \in {"returned", "raised"} /\ a_engine \in {"pymupdf", "pypdfium2"}) =>
          a_handles.closed = a_handles.opened

\* the metric steps evaluate_quality has completed
CompletenessDone == q_pc \in {"precision", "visual", "report"} \/ q_outcome.kind = "returned"
PrecisionDone == q_pc \in {"visual", "report"} \/ q_outcome.kind = "returned"

\* C15: evaluate_quality returns a QualityReport in all cases and never
\* raises: for missing documents, an empty term list or a failing text
\* extraction or scoring step the caller receives a report.
C15_QualityNeverRaises ==
    q_pc = "done" => q_outcome.kind = "returned"

\* the term occurs in the text as a substring, ignoring case
TermInText(term, text) == Contains(Lower(text), Lower(term))

FoundInOriginal == { i \in 1..Len(q_terms) : TermInText(q_terms[i], q_original_text) }
StillVisible == { i \in 1..Len(q_terms) : TermInText(q_terms[i], q_obfuscated_text) }

\* C16: evaluate_completeness scores (|found_in_original| - |still_visible|)
\* / |found_in_original|, found_in_original and still_visible being the terms
\* that occur, ignoring case, as substrings of the original and of the
\* redacted text, and 1.0 when found_in_original is empty.
C16_CompletenessScore ==
    CompletenessDone =>
        LET f == Cardinality(FoundInOriginal)
            v == Cardinality(StillVisible)
            score == q_completeness.score
        IN  /\ Len(q_completeness.original_terms) = f
            /\ Len(q_completeness.remaining_terms) = v
            /\ \A i \in 1..Len(q_completeness.original_terms) :
                  TermInText(q_completeness.original_terms[i], q_original_text)
            /\ \A i \in 1..Len(q_completeness.remaining_terms) :
                  TermInText(q_completeness.remaining_terms[i], q_obfuscated_text)
            /\ score.den > 0
            /\ IF f = 0 THEN score.num = score.den
               ELSE score.num * f = (f - v) * score.den

\* two terms found in the original, one of them still visible, in a case the
\* lowering decides
C16_Witness ==
    /\ CompletenessDone
    /\ Cardinality(FoundInOriginal) = 2
    /\ Cardinality(StillVisible) = 1
    /\ Lower(q_obfuscated_text) # q_obfuscated_text

InUnitInterval(score) == score.den > 0 /\ 0 <= score.num /\ score.num <= score.den

\* C17: each of the four scores of the QualityMetrics of a report
\* (completeness, precision, visual integrity, overall) lies in [0,1], also
\* when the redacted text contains target terms the original does not.
C17_ScoresInUnitInterval ==
    q_outcome.kind = "returned" =>
        /\ InUnitInterval(q_outcome.report.metrics.completeness_score)
        /\ InUnitInterval(q_outcome.report.metrics.precision_score)
        /\ InUnitInterval(q_outcome.report.metrics.visual_integrity_score)
        /\ InUnitInterval(q_outcome.report.metrics.overall_score)

CountIn(w, list) == Cardinality({ i \in 1..Len(list) : list[i] = w })

WordsOf(list) == { list[i] : i \in 1..Len(list) }

\* C18: the missing words of evaluate_precision are the multiset difference
\* of the normalized word lists, original minus redacted: a word occurring m
\* times in the original and n times in the redacted text is missing
\* max(m - n, 0) times, and a word of the redacted text only is never missing.
C18_MissingIsMultisetDifference ==
    PrecisionDone =>
        LET original_words == CleanWords(q_original_text)
            obfuscated_words == CleanWords(q_obfuscated_text)
            missing_words == q_precision.missing_words
            diff(w) == CountIn(w, original_words) - CountIn(w, obfuscated_words)
        IN  /\ \A w \in WordsOf(original_words) \cup WordsOf(obfuscated_words)
                        \cup WordsOf(missing_words) :
                  CountIn(w, missing_words) = IF diff(w) > 0 THEN diff(w) ELSE 0
            /\ q_precision.total_disappeared_terms = Len(missing_words)
            /\ Len(q_precision.targeted_terms_found) + Len(q_precision.false_positives)
                  = Len(missing_words)

\* a word read twice in the original and once in the redacted text
C18_Witness ==
    /\ PrecisionDone
    /\ \E w \in WordsOf(CleanWords(q_original_text)) :
          /\ CountIn(w, CleanWords(q_original_text)) = 2
          /\ CountIn(w, CleanWords(q_obfuscated_text)) = 1
          /\ CountIn(w, q_precision.missing_words) = 1

\* the orders in which the words of a text can be written
WordOrders(words) ==
    LET n == Len(words)
        Bijections == { g \in [1..n -> 1..n] : \A i, j \in 1..n : g[i] = g[j] => i = j }
    IN  { [i \in 1..n |-> words[g[i]]] : g \in Bijections }

\* C19: the precision score and the false-positive count do not change when
\* the words of the original text or of the redacted text are written in
\* another order.
C19_PrecisionOrderInvariant ==
    PrecisionDone =>
        \A o \in WordOrders(Split(q_original_text)) :
            \A r \in WordOrders(Split(q_obfuscated_text)) :
                LET shuffled == evaluate_precision(Join(o), Join(r), q_terms)
                IN  /\ shuffled.score = q_precision.score
                    /\ shuffled.false_positive_count = q_precision.false_positive_count

\* two texts of two different words each, with a false positive and a word
\* that was kept
C19_Witness ==
    /\ PrecisionDone
    /\ Len(Split(q_original_text)) >= 2 /\ Len(Split(q_obfuscated_text)) >= 2
    /\ Cardinality(WordOrders(Split(q_original_text))) >= 2
    /\ Cardinality(WordOrders(Split(q_obfuscated_text))) >= 2
    /\ q_precision.false_positive_count = 1
    /\ q_precision.total_disappeared_terms < q_precision.total_original_words

\* the rule of C20 for one missing word and one target term
IntentionalByRule(word, term) ==
    LET target == Lower(normalize_punctuation(term))
        tokens == Split(target)
    IN  \/ word = target
        \/ Len(tokens) > 1 /\ InList(word, tokens)
        \/ Len(word) >= 2 /\ Contains(target, word)

\* C20: a missing word is classified as intentionally redacted iff for some
\* target term it equals the term, or equals a token of a multi-word term,
\* or is a substring of length >= 2 of the term; every other missing word is
\* a false positive.
C20_Classification ==
    PrecisionDone =>
        \A i \in 1..Len(q_precision.missing_words) :
            LET word == q_precision.missing_words[i]
                intentional == \E t \in 1..Len(q_terms) : IntentionalByRule(word, q_terms[t])
            IN  /\ InList(word, q_precision.targeted_terms_found) <=> intentional
                /\ InList(word, q_precision.false_positives) <=> ~intentional

\* the number of non-empty normalized words of the original text
TotalOriginalWords == Len(CleanWords(q_original_text))

\* C21 as stated: evaluate_precision returns exactly
\* 1 - false_positive_count / total_original_word_count, never below 0, and
\* 1.0 when the original text has no word.
C21_PrecisionScoreExact ==
    PrecisionDone =>
        LET score == q_precision.score
        IN  /\ score.den > 0 /\ score.num >= 0
            /\ IF TotalOriginalWords = 0 THEN score.num = score.den
               ELSE score.num * TotalOriginalWords
                       = (TotalOriginalWords - q_precision.false_positive_count) * score.den

\* C21 amended: evaluate_precision returns
\* 1 - false_positive_count / total_original_word_count rounded to the
\* nearest thousandth, never below 0, and 1.0 when the original text has no
\* word.
C21_PrecisionScoreRounded ==
    PrecisionDone =>
        LET score == q_precision.score
            exact == 1000 * (TotalOriginalWords - q_precision.false_positive_count)
            error == score.num * TotalOriginalWords - exact
        IN  /\ score.den > 0 /\ score.num >= 0
            /\ q_precision.total_original_words = TotalOriginalWords
            /\ q_precision.false_positive_count = Len(q_precision.false_positives)
            /\ IF TotalOriginalWords = 0 THEN score.num = score.den
               ELSE /\ score.den = 1000
                    /\ 2 * error <= TotalOriginalWords
                    /\ -2 * error <= TotalOriginalWords

\* three original words of which two are false positives: the quotient 1/3
\* has no exact value in thousandths
C21_Witness ==
    /\ PrecisionDone
    /\ TotalOriginalWords = 3
    /\ q_precision.false_positive_count = 2
    /\ q_precision.score = Frac(333, 1000)

\* the number of pages of the document stored at a path
PageCount(path) == Len(InitFiles[_resolve_path(path)].pages)

VisualIntegrityDone == q_pc = "report" \/ q_outcome.kind = "returned"

\* C22: the visual-integrity evaluation evaluate_quality uses scores 1.0 if
\* and only if the original and the redacted document have the same number
\* of pages, and below 1.0 when the page counts differ.
C22_VisualIntegrityIffPageCounts ==
    VisualIntegrityDone =>
        /\ q_visual.score.den > 0
        /\ q_visual.score.num = q_visual.score.den
              <=> PageCount(q_original_path) = PageCount(q_obfuscated_path)
        /\ PageCount(q_original_path) # PageCount(q_obfuscated_path)
              => q_visual.score.num < q_visual.score.den

\* C23: in every report evaluate_quality returns, overall_score is
\* 0.45 * completeness + 0.45 * precision + 0.10 * visual integrity of the
\* report's own three scores, rounded to three decimals: the value in
\* thousandths nearest to the weighted sum.
C23_OverallIsWeightedSum ==
    q_outcome.kind = "returned" =>
        LET m == q_outcome.report.metrics
            c == m.completeness_score
            p == m.precision_score
            v == m.visual_integrity_score
            den == c.den * p.den * v.den
            weighted == 45 * c.num * p.den * v.den + 45 * p.num * c.den * v.den
                            + 10 * v.num * c.den * p.den
            error == m.overall_score.num * den - 10 * weighted
        IN  /\ den > 0
            /\ m.overall_score.den = 1000
            /\ 2 * error <= den /\ -2 * error <= den
            /\ c = q_completeness.score /\ p = q_precision.score /\ v = q_visual.score

\* a report whose completeness and precision scores differ and are not both
\* whole
C23_Witness ==
    /\ q_outcome.kind = "returned"
    /\ q_outcome.report.metrics.completeness_score = Frac(1, 2)
    /\ q_outcome.report.metrics.precision_score.num
          < q_outcome.report.metrics.precision_score.den
    /\ q_outcome.report.metrics.overall_score.num \in 1..999

\* C24: in the report evaluate_quality returns, non_obfuscated_terms is the
\* still-visible term list of evaluate_completeness and false_positive_terms
\* is the list of missing words evaluate_precision classified as false
\* positives, so false_positive_terms is non-empty whenever
\* false_positive_count is greater than 0.
C24_ReportTermLists ==
    q_outcome.kind = "returned" =>
        /\ q_outcome.report.metrics.non_obfuscated_terms = q_completeness.remaining_terms
        /\ q_outcome.report.metrics.false_positive_terms = q_precision.false_positives
        /\ q_precision.false_positive_count > 0
              => q_outcome.report.metrics.false_positive_terms # <<>>

\* the fragment occurs in the message
Mentions(msg, fragment) == \E i \in 1..Len(msg) : msg[i] = fragment

\* the response of POST /obfuscate for the finished call
ObfuscateResponse == post_obfuscate(file_exists(InitFiles, source_path), outcome)

\* C25: POST /obfuscate with an existing source file, at least one term and
\* an engine outside
\* {pymupdf, pypdfium2, pdfplumber} is answered with status 500 and a detail
\* that names the rejected engine and lists the available engines.
C25_InvalidEngineIs500 ==
    (/\ Done
     /\ source_path.tag = "str"
     /\ file_exists(InitFiles, source_path)
     /\ terms # <<>>
     /\ ~validate_engine(engine))
        => /\ ObfuscateResponse.status_code = 500
           /\ Mentions(ObfuscateResponse.detail, engine)
           /\ Mentions(ObfuscateResponse.detail, " not supported. Available engines: ")

\* what the read operations give for every path after the calls so far
StorageReadsMatchHistory ==
    \A p \in StoragePaths :
        LET f == _resolve_path(p)
            r == read_file(s_fs, p)
        IN  IF s_last[f] # Absent
            THEN /\ r.exc = NoExc /\ r.content = s_last[f]
                 /\ file_exists(s_fs, p)
            ELSE /\ r.exc.type = "FileStorageError"
                 /\ ~file_exists(s_fs, p)

\* a delete_file of a path that does not exist returns and changes nothing
DeleteOfMissingChangesNothing ==
    (s_call'.op = "delete_file" /\ s_fs[_resolve_path(s_call'.path)] = Absent)
        => s_fs' = s_fs /\ s_call'.exc = NoExc

\* C26: after any sequence of write_file and delete_file calls, read_file(p)
\* returns the bytes of the most recent write_file(p, .) that no
\* delete_file(p) followed (a later write overwrites, missing parent
\* directories are created), file_exists(p) is true exactly then and false
\* for a directory or a never-written path, read_file of a non-existent path
\* raises FileStorageError, and delete_file of a non-existent path changes
\* nothing.
C26_StorageRoundTrip ==
    [](s_pc = "run" => StorageReadsMatchHistory) /\ [][DeleteOfMissingChangesNothing]_vars

\* a file overwritten with other bytes, a parent directory that a write
\* created, and a file in it that was written and deleted again
C26_Witness ==
    /\ s_pc = "run"
    /\ s_last[<<"/", "base", "a.pdf">>] = OldDoc
    /\ s_fs[<<"/", "base", "d">>] = Dir
    /\ s_last[<<"/", "base", "d", "x.pdf">>] = Absent
    /\ s_call = StorageCall("delete_file", Str(<<"d", "x.pdf">>), NoExc)

\* the words in increasing x0, words of equal x0 in their input order
WordsByX0(words) ==
    LET n == Len(words)
        InOrder(g) == \A i, j \in 1..n :
                          i < j => \/ words[g[i]].box.x0 < words[g[j]].box.x0
                                   \/ words[g[i]].box.x0 = words[g[j]].box.x0 /\ g[i] < g[j]
        g == CHOOSE h \in [1..n -> 1..n] : InOrder(h)
    IN  [i \in 1..n |-> words[g[i]]]

\* the columns are the runs of the x0 scan cut at every gap above 50, each
\* run listed by (top, x0)
ColumnsPartitionPage(words, columns) ==
    LET n == Len(words)
        scan == WordsByX0(words)
        Breaks == { i \in 2..n : scan[i].box.x0 - scan[i - 1].box.x1 > 50 }
        ColumnOf(i) == 1 + Cardinality({ b \in Breaks : b <= i })
        Run(c) == { i \in 1..n : ColumnOf(i) = c }
        all == FlattenSeq(columns)
    IN  IF n = 0 THEN columns = <<>>
        ELSE /\ Len(columns) = Cardinality(Breaks) + 1
             /\ Len(all) = n
             /\ \A i \in 1..n : CountIn(words[i], all) = CountIn(words[i], words)
             /\ \A c \in 1..Len(columns) :
                   /\ Len(columns[c]) = Cardinality(Run(c))
                   /\ \A i \in Run(c) : CountIn(scan[i], columns[c]) >= 1
                   /\ \A j, k \in 1..Len(columns[c]) :
                         j < k => \/ columns[c][j].box.y0 < columns[c][k].box.y0
                                  \/ /\ columns[c][j].box.y0 = columns[c][k].box.y0
                                     /\ columns[c][j].box.x0 <= columns[c][k].box.x0

\* C27: _group_words_by_columns partitions the words of a page into columns:
\* every word is in exactly one column, a new column starts exactly where,
\* in increasing x0, a word's x0 exceeds the previous word's x1 by more than
\* 50, columns come left to right, the words of a column are ordered by
\* (top, x0), and no words give no columns.
C27_ColumnsPartition ==
    (x_pc = "returned" /\ x_engine = "pdfplumber" /\ x_content.kind = "pdf") =>
        /\ \A n \in 1..Len(x_content.pages) :
              ColumnsPartitionPage(x_content.pages[n].words,
                                   _group_words_by_columns(x_content.pages[n].words))
        /\ _group_words_by_columns(<<>>) = <<>>

\* a page of two columns whose second column reads in another order than
\* its x0 order
C27_Witness ==
    /\ x_pc = "returned" /\ x_engine = "pdfplumber"
    /\ x_content.pages[1] = LayoutPage("columns", 1)
    /\ Len(_group_words_by_columns(x_content.pages[1].words)) = 2
    /\ _group_words_by_columns(x_content.pages[1].words)[2][1].box = B4

\* C28: every rectangle a raster engine (pypdfium2, pdfplumber) draws in
\* obfuscate_occurrences satisfies 0 <= x0 <= x1 <= raster width and
\* 0 <= y0 <= y1 <= raster height, for every occurrence box and every page
\* bounding box, boxes with a non-zero or negative origin included.
C28_RectanglesInsideRaster ==
    (a_pc = "returned" /\ a_engine \in {"pypdfium2", "pdfplumber"}) =>
        LET rects == DrawnRectangles(a_engine, a_content, a_occurrences)
        IN  \A i \in 1..Len(rects) :
                /\ 0 <= rects[i].x0 /\ rects[i].x0 <= rects[i].x1
                /\ rects[i].x1 <= rects[i].img_w
                /\ 0 <= rects[i].y0 /\ rects[i].y0 <= rects[i].y1
                /\ rects[i].y1 <= rects[i].img_h

\* the obfuscate_occurrences calls of the run
IsRedact(c) == c.op = "redact"
RedactCalls == SelectSeq(calls, IsRedact)

\* C29: in every successful result obfuscate_document returns,
\* total_occurrences_obfuscated is the number of occurrences passed to the
\* adapter's obfuscate_occurrences in that run, also for term lists with a
\* repeated term or with two terms that differ only in letter case.
C29_TotalIsPaintedCount ==
    (Done /\ outcome.kind = "returned" /\ ReturnedResult.success) =>
        /\ Len(RedactCalls) = 1
        /\ ReturnedResult.total_occurrences_obfuscated = Len(RedactCalls[1].occs)

\* the write_file calls of the run that returned
IsCompletedWrite(c) == c.op = "write" /\ c.ok
CompletedWrites == SelectSeq(calls, IsCompletedWrite)

\* C30: whenever obfuscate_document returns a result with success = false,
\* no write to the destination happened during the call and the stored
\* files are what they were before it, for every failure cause, a failure
\* of the quality evaluation requested with evaluate_quality = true
\* included.
C30_FailureWritesNothing ==
    (Done /\ outcome.kind = "returned" /\ ~ReturnedResult.success) =>
        /\ CompletedWrites = <<>>
        /\ files = InitFiles

====
